---- MODULE Spec2Model ----
(***************************************************************************)
(* A model of the GTS identifier library (Artifizer/gts-go): the           *)
(* identifier parser, the wildcard matcher, the relationship graph         *)
(* resolver and the cast engine.  Text is modelled as a sequence of        *)
(* one-character strings, so that trimming, splitting and number           *)
(* conversion are computed the way the Go code computes them.              *)
(***************************************************************************)
EXTENDS Integers, Sequences, FiniteSets, TLC

VARIABLES
    mode,         \* which operation family this behaviour exercises
    pc,           \* position of the running operation
    candidate,    \* text handed to NewGtsID / MatchIDPattern (candidate side)
    pattern,      \* text handed to MatchIDPattern (pattern side)
    parsed,       \* result of NewGtsID(candidate)
    matchResult,  \* result of MatchIDPattern(candidate, pattern)
    byID,         \* GtsStore.byID: the registered entities, by identifier
    rootID,       \* argument of BuildSchemaGraph
    seen,         \* the seen map shared by every buildNode call
    stack,        \* call stack of buildNode frames
    graph,        \* value returned by the outermost buildNode
    steps,        \* number of buildNode calls entered so far
    heap,         \* Go heap of map[string]any objects, by address
    castArgs,     \* arguments of the last Cast / CheckCompatibility call
    castResult,   \* value returned by the last Cast / CheckCompatibility
    queryArgs,    \* arguments of the last Query call
    queryResult,  \* value returned by the last Query call
    reader,       \* the GtsFileReader: its paths, file list and cursors
    readLog,      \* what the reader's Next calls have returned
    config,       \* the GtsStore's RegistryConfig
    storeResult,  \* the last GtsStore call and what it returned
    xref          \* the running validateRefPattern call: its arguments,
                  \* the resolvePointer calls on the stack and its result

vars == <<mode, pc, candidate, pattern, parsed, matchResult, byID, rootID,
          seen, stack, graph, steps, heap, castArgs, castResult, queryArgs,
          queryResult, reader, readLog, config, storeResult, xref>>

-----------------------------------------------------------------------------
(* Text primitives (package strings / strconv / regexp as the code uses     *)
(* them).                                                                   *)

LowerSeq == <<"a","b","c","d","e","f","g","h","i","j","k","l","m",
              "n","o","p","q","r","s","t","u","v","w","x","y","z">>
UpperSeq == <<"A","B","C","D","E","F","G","H","I","J","K","L","M",
              "N","O","P","Q","R","S","T","U","V","W","X","Y","Z">>
DigitSeq == <<"0","1","2","3","4","5","6","7","8","9">>

Range(f) == {f[i] : i \in DOMAIN f}
Lower == Range(LowerSeq)
Upper == Range(UpperSeq)
Digit == Range(DigitSeq)
\* A character of a text is a string: the character itself when it is a
\* printable character of ASCII other than the grave accent, or one of tab,
\* line feed, vertical tab, form feed and carriage return, and otherwise "U+"
\* followed by its code point in upper-case hexadecimal digits, four at
\* least: "U+00C9" is the letter E with acute, "U+2003" the em space.
AsciiSeq ==
    <<" ","!","\"","#","$","%","&","'","(",")","*","+",",","-",".","/",
      "0","1","2","3","4","5","6","7","8","9",":",";","<","=",">","?",
      "@","A","B","C","D","E","F","G","H","I","J","K","L","M","N","O",
      "P","Q","R","S","T","U","V","W","X","Y","Z","[","\\","]","^","_",
      "U+0060","a","b","c","d","e","f","g","h","i","j","k","l","m","n","o",
      "p","q","r","s","t","u","v","w","x","y","z","{","|","}","~">>
ControlSeq == <<"\t", "\n", "", "\f", "\r">>
HexSeq == <<"0","1","2","3","4","5","6","7","8","9","A","B","C","D","E","F">>

RECURSIVE HexDigits(_, _)
HexDigits(n, width) ==
    IF n = 0 /\ width <= 0 THEN ""
    ELSE HexDigits(n \div 16, width - 1) \o HexSeq[(n % 16) + 1]
RECURSIVE HexValue(_)
HexValue(ds) ==
    IF Len(ds) = 0 THEN 0
    ELSE 16 * HexValue(SubSeq(ds, 1, Len(ds) - 1))
         + (CHOOSE i \in 1..16 : HexSeq[i] = SubSeq(ds, Len(ds), Len(ds))) - 1

\* the character with code point cp, and the code point of a character
Rune(cp) ==
    IF cp \in 32..126 THEN AsciiSeq[cp - 31]
    ELSE IF cp \in 9..13 THEN ControlSeq[cp - 8]
    ELSE "U+" \o HexDigits(cp, 4)
CodePoint(c) ==
    IF Len(c) > 1 THEN HexValue(SubSeq(c, 3, Len(c)))
    ELSE IF \E i \in 1..5 : ControlSeq[i] = c
    THEN 8 + (CHOOSE i \in 1..5 : ControlSeq[i] = c)
    ELSE 31 + (CHOOSE i \in 1..95 : AsciiSeq[i] = c)

\* unicode.IsSpace: tab, line feed, vertical tab, form feed, carriage return,
\* space, U+0085, U+00A0, U+1680, U+2000 to U+200A, U+2028, U+2029, U+202F,
\* U+205F and U+3000
SpaceCodes ==
    {133, 160, 5760, 8232, 8233, 8239, 8287, 12288} \cup (8192..8202)
White == {" ", "\t", "\n", "\r", "\f", ""} \cup {Rune(cp) : cp \in SpaceCodes}

\* len(s) of a Go string counts the bytes of its UTF-8 form: one for a code
\* point below U+0080, two below U+0800, three below U+10000, four from there
ByteLenCh(c) ==
    IF Len(c) = 1 \/ CodePoint(c) < 128 THEN 1
    ELSE IF CodePoint(c) < 2048 THEN 2
    ELSE IF CodePoint(c) < 65536 THEN 3
    ELSE 4
RECURSIVE ByteLen(_)
ByteLen(s) ==
    IF Len(s) = 0 THEN 0
    ELSE IF Len(s) = 1 THEN ByteLenCh(s[1])
    ELSE ByteLen(SubSeq(s, 1, Len(s) \div 2))
         + ByteLen(SubSeq(s, (Len(s) \div 2) + 1, Len(s)))

Min(S) == CHOOSE x \in S : \A y \in S : x <= y
Max(S) == CHOOSE x \in S : \A y \in S : x >= y

\* The element of a one-element set.  Only({e(x) : x \in {v}}) is e(x) for x
\* the value of v: v is computed once, before e, the way x := v is.
Only(S) == CHOOSE x \in S : TRUE

\* unicode.ToLower beyond ASCII: the letters with a lower-case form, as ranges
\* <<first, last, stride, delta>>; the lower-case form of a code point of a
\* range is the code point plus delta
CaseRanges ==
    << <<192, 214, 1, 32>>, <<216, 222, 1, 32>>, <<256, 302, 2, 1>>,
       <<304, 304, 1, -199>>, <<306, 310, 2, 1>>, <<313, 327, 2, 1>>,
       <<330, 374, 2, 1>>, <<376, 376, 1, -121>>, <<377, 381, 2, 1>>,
       <<385, 385, 1, 210>>, <<386, 388, 2, 1>>, <<390, 390, 1, 206>>,
       <<391, 391, 1, 1>>, <<393, 394, 1, 205>>, <<395, 395, 1, 1>>,
       <<398, 398, 1, 79>>, <<399, 399, 1, 202>>, <<400, 400, 1, 203>>,
       <<401, 401, 1, 1>>, <<403, 403, 1, 205>>, <<404, 404, 1, 207>>,
       <<406, 406, 1, 211>>, <<407, 407, 1, 209>>, <<408, 408, 1, 1>>,
       <<412, 412, 1, 211>>, <<413, 413, 1, 213>>, <<415, 415, 1, 214>>,
       <<416, 420, 2, 1>>, <<422, 422, 1, 218>>, <<423, 423, 1, 1>>,
       <<425, 425, 1, 218>>, <<428, 428, 1, 1>>, <<430, 430, 1, 218>>,
       <<431, 431, 1, 1>>, <<433, 434, 1, 217>>, <<435, 437, 2, 1>>,
       <<439, 439, 1, 219>>, <<440, 440, 1, 1>>, <<444, 444, 1, 1>>,
       <<452, 452, 1, 2>>, <<453, 453, 1, 1>>, <<455, 455, 1, 2>>,
       <<456, 456, 1, 1>>, <<458, 458, 1, 2>>, <<459, 475, 2, 1>>,
       <<478, 494, 2, 1>>, <<497, 497, 1, 2>>, <<498, 500, 2, 1>>,
       <<502, 502, 1, -97>>, <<503, 503, 1, -56>>, <<504, 542, 2, 1>>,
       <<544, 544, 1, -130>>, <<546, 562, 2, 1>>, <<570, 570, 1, 10795>>,
       <<571, 571, 1, 1>>, <<573, 573, 1, -163>>, <<574, 574, 1, 10792>>,
       <<577, 577, 1, 1>>, <<579, 579, 1, -195>>, <<580, 580, 1, 69>>,
       <<581, 581, 1, 71>>, <<582, 590, 2, 1>>, <<880, 882, 2, 1>>,
       <<886, 886, 1, 1>>, <<895, 895, 1, 116>>, <<902, 902, 1, 38>>,
       <<904, 906, 1, 37>>, <<908, 908, 1, 64>>, <<910, 911, 1, 63>>,
       <<913, 929, 1, 32>>, <<931, 939, 1, 32>>, <<975, 975, 1, 8>>,
       <<984, 1006, 2, 1>>, <<1012, 1012, 1, -60>>, <<1015, 1015, 1, 1>>,
       <<1017, 1017, 1, -7>>, <<1018, 1018, 1, 1>>, <<1021, 1023, 1, -130>>,
       <<1024, 1039, 1, 80>>, <<1040, 1071, 1, 32>>, <<1120, 1152, 2, 1>>,
       <<1162, 1214, 2, 1>>, <<1216, 1216, 1, 15>>, <<1217, 1229, 2, 1>>,
       <<1232, 1326, 2, 1>>, <<1329, 1366, 1, 48>>, <<4256, 4293, 1, 7264>>,
       <<4295, 4295, 1, 7264>>, <<4301, 4301, 1, 7264>>,
       <<5024, 5103, 1, 38864>>, <<5104, 5109, 1, 8>>,
       <<7312, 7354, 1, -3008>>, <<7357, 7359, 1, -3008>>,
       <<7680, 7828, 2, 1>>, <<7838, 7838, 1, -7615>>, <<7840, 7934, 2, 1>>,
       <<7944, 7951, 1, -8>>, <<7960, 7965, 1, -8>>, <<7976, 7983, 1, -8>>,
       <<7992, 7999, 1, -8>>, <<8008, 8013, 1, -8>>, <<8025, 8031, 2, -8>>,
       <<8040, 8047, 1, -8>>, <<8072, 8079, 1, -8>>, <<8088, 8095, 1, -8>>,
       <<8104, 8111, 1, -8>>, <<8120, 8121, 1, -8>>, <<8122, 8123, 1, -74>>,
       <<8124, 8124, 1, -9>>, <<8136, 8139, 1, -86>>, <<8140, 8140, 1, -9>>,
       <<8152, 8153, 1, -8>>, <<8154, 8155, 1, -100>>, <<8168, 8169, 1, -8>>,
       <<8170, 8171, 1, -112>>, <<8172, 8172, 1, -7>>,
       <<8184, 8185, 1, -128>>, <<8186, 8187, 1, -126>>,
       <<8188, 8188, 1, -9>>, <<8486, 8486, 1, -7517>>,
       <<8490, 8490, 1, -8383>>, <<8491, 8491, 1, -8262>>,
       <<8498, 8498, 1, 28>>, <<8544, 8559, 1, 16>>, <<8579, 8579, 1, 1>>,
       <<9398, 9423, 1, 26>>, <<11264, 11311, 1, 48>>,
       <<11360, 11360, 1, 1>>, <<11362, 11362, 1, -10743>>,
       <<11363, 11363, 1, -3814>>, <<11364, 11364, 1, -10727>>,
       <<11367, 11371, 2, 1>>, <<11373, 11373, 1, -10780>>,
       <<11374, 11374, 1, -10749>>, <<11375, 11375, 1, -10783>>,
       <<11376, 11376, 1, -10782>>, <<11378, 11378, 1, 1>>,
       <<11381, 11381, 1, 1>>, <<11390, 11391, 1, -10815>>,
       <<11392, 11490, 2, 1>>, <<11499, 11501, 2, 1>>,
       <<11506, 11506, 1, 1>>, <<42560, 42604, 2, 1>>,
       <<42624, 42650, 2, 1>>, <<42786, 42798, 2, 1>>,
       <<42802, 42862, 2, 1>>, <<42873, 42875, 2, 1>>,
       <<42877, 42877, 1, -35332>>, <<42878, 42886, 2, 1>>,
       <<42891, 42891, 1, 1>>, <<42893, 42893, 1, -42280>>,
       <<42896, 42898, 2, 1>>, <<42902, 42920, 2, 1>>,
       <<42922, 42922, 1, -42308>>, <<42923, 42923, 1, -42319>>,
       <<42924, 42924, 1, -42315>>, <<42925, 42925, 1, -42305>>,
       <<42926, 42926, 1, -42308>>, <<42928, 42928, 1, -42258>>,
       <<42929, 42929, 1, -42282>>, <<42930, 42930, 1, -42261>>,
       <<42931, 42931, 1, 928>>, <<42932, 42946, 2, 1>>,
       <<42948, 42948, 1, -48>>, <<42949, 42949, 1, -42307>>,
       <<42950, 42950, 1, -35384>>, <<42951, 42953, 2, 1>>,
       <<42960, 42960, 1, 1>>, <<42966, 42968, 2, 1>>,
       <<42997, 42997, 1, 1>>, <<65313, 65338, 1, 32>>,
       <<66560, 66599, 1, 40>>, <<66736, 66771, 1, 40>>,
       <<66928, 66964, 2, 39>>, <<66929, 66937, 2, 39>>,
       <<66941, 66953, 2, 39>>, <<66957, 66961, 2, 39>>,
       <<66965, 66965, 1, 39>>, <<68736, 68786, 1, 64>>,
       <<71840, 71871, 1, 32>>, <<93760, 93791, 1, 32>>,
       <<125184, 125217, 1, 34>> >>
ToLowerCode(cp) ==
    IF \E i \in 1..Len(CaseRanges) :
          /\ CaseRanges[i][1] <= cp /\ cp <= CaseRanges[i][2]
          /\ (cp - CaseRanges[i][1]) % CaseRanges[i][3] = 0
    THEN cp + CaseRanges[CHOOSE i \in 1..Len(CaseRanges) :
                           /\ CaseRanges[i][1] <= cp /\ cp <= CaseRanges[i][2]
                           /\ (cp - CaseRanges[i][1]) % CaseRanges[i][3] = 0][4]
    ELSE cp

ToLowerCh(c) ==
    IF c \in Upper THEN LowerSeq[CHOOSE i \in 1..26 : UpperSeq[i] = c]
    ELSE IF Len(c) = 1 THEN c
    ELSE Rune(ToLowerCode(CodePoint(c)))

ToLower(s) == [i \in 1..Len(s) |-> ToLowerCh(s[i])]

TrimSpace(s) ==
    LET keep == {i \in 1..Len(s) : s[i] \notin White}
    IN  IF keep = {} THEN <<>> ELSE SubSeq(s, Min(keep), Max(keep))

HasPrefix(s, p) == Len(s) >= Len(p) /\ SubSeq(s, 1, Len(p)) = p
HasSuffix(s, p) == Len(s) >= Len(p) /\ SubSeq(s, Len(s) - Len(p) + 1, Len(s)) = p
TrimPrefix(s, p) == IF HasPrefix(s, p) THEN SubSeq(s, Len(p) + 1, Len(s)) ELSE s

\* strings.Count / strings.Contains for a one-character needle
CountCh(s, c) == Cardinality({i \in 1..Len(s) : s[i] = c})
ContainsCh(s, c) == \E i \in 1..Len(s) : s[i] = c

\* strings.Split(s, c) for a one-character separator: always at least one piece
Split(s, c) ==
    LET pos == {i \in 1..Len(s) : s[i] = c}
        n   == Cardinality(pos)
        \* cut[k] is the index of the k-th separator; cut[0] = 0, cut[n+1] = Len+1
        cut == [k \in 0..(n + 1) |->
                   IF k = 0 THEN 0
                   ELSE IF k = n + 1 THEN Len(s) + 1
                   ELSE CHOOSE i \in pos : Cardinality({j \in pos : j <= i}) = k]
    IN  [k \in 1..(n + 1) |-> SubSeq(s, cut[k - 1] + 1, cut[k] - 1)]

\* strings.SplitN(s, c, 2): the text before the first c and the text after it
SplitN2(s, c) ==
    IF ~ContainsCh(s, c) THEN <<s>>
    ELSE LET i == Min({j \in 1..Len(s) : s[j] = c})
         IN <<SubSeq(s, 1, i - 1), SubSeq(s, i + 1, Len(s))>>

\* the pieces of a list of texts joined, the list halved at every step
RECURSIVE Join(_)
Join(ss) ==
    IF Len(ss) = 0 THEN <<>>
    ELSE IF Len(ss) = 1 THEN ss[1]
    ELSE Join(SubSeq(ss, 1, Len(ss) \div 2))
         \o Join(SubSeq(ss, (Len(ss) \div 2) + 1, Len(ss)))

\* strings.ReplaceAll(s, <<a, b>>, new) for a two-character needle, scanning
\* left to right without overlap: of a run of occurrences that overlap, the
\* first, the third and so on are replaced
ReplaceAll2(s, old, new) ==
    LET at == {i \in 1..(Len(s) - 1) : SubSeq(s, i, i + 1) = old}
        run(i) == i - Max({j \in 0..(i - 1) : j \notin at})
        taken == {i \in at : run(i) % 2 = 1}
    IN  Join([i \in 1..Len(s) |->
                IF i \in taken THEN new
                ELSE IF (i - 1) \in taken THEN <<>>
                ELSE <<s[i]>>])

DigitVal(c) == (CHOOSE i \in 1..10 : DigitSeq[i] = c) - 1

\* An int of the program has 64 bits, more than an integer of the model holds.
\* The ints that strconv.Atoi reads are held as the text strconv.Itoa prints
\* for them: "0", or digits that do not start with 0, after a "-" when the int
\* is negative.
IntZero == <<"0">>
MaxInt64 == <<"9","2","2","3","3","7","2","0","3","6","8","5","4","7","7","5","8","0","7">>
MinInt64Magnitude == <<"9","2","2","3","3","7","2","0","3","6","8","5","4","7","7","5","8","0","8">>

RECURSIVE StripZeros(_)
StripZeros(ds) ==
    IF Len(ds) > 1 /\ Head(ds) = "0" THEN StripZeros(Tail(ds)) ELSE ds

\* a <= b for two digit texts without leading zeros
DigitsLeq(a, b) ==
    \/ Len(a) < Len(b)
    \/ /\ Len(a) = Len(b)
       /\ \/ a = b
          \/ \E i \in 1..Len(a) :
                /\ \A j \in 1..(i - 1) : a[j] = b[j]
                /\ DigitVal(a[i]) < DigitVal(b[i])

\* a < 0 and a < b for ints
IntNegative(a) == Head(a) = "-"
IntLess(a, b) ==
    IF IntNegative(a) # IntNegative(b) THEN IntNegative(a)
    ELSE IF IntNegative(a) THEN a # b /\ DigitsLeq(Tail(b), Tail(a))
    ELSE a # b /\ DigitsLeq(a, b)

\* strconv.Atoi: optional sign, then one or more decimal digits that give a
\* value an int can hold; val is the int read
Atoi(s) ==
    LET signed == Len(s) > 0 /\ s[1] \in {"+", "-"}
        ds     == IF signed THEN Tail(s) ELSE s
        syntax == Len(ds) > 0 /\ \A i \in 1..Len(ds) : ds[i] \in Digit
        neg    == signed /\ s[1] = "-"
    IN  Only({
          LET ok == syntax /\ DigitsLeq(mag, IF neg THEN MinInt64Magnitude
                                                   ELSE MaxInt64)
          IN  [ok  |-> ok,
               val |-> IF ~ok THEN IntZero
                       ELSE IF neg /\ mag # IntZero THEN <<"-">> \o mag
                       ELSE mag]
          : mag \in {IF syntax THEN StripZeros(ds) ELSE IntZero} })

RECURSIVE ItoaNat(_)
ItoaNat(n) ==
    IF n < 10 THEN <<DigitSeq[n + 1]>>
    ELSE ItoaNat(n \div 10) \o <<DigitSeq[(n % 10) + 1]>>

\* strconv.Itoa
Itoa(n) == IF n < 0 THEN <<"-">> \o ItoaNat(0 - n) ELSE ItoaNat(n)

\* segmentTokenRegex: ^[a-z_][a-z0-9_]*$
segmentTokenRegex(tok) ==
    /\ Len(tok) >= 1
    /\ tok[1] \in Lower \cup {"_"}
    /\ \A i \in 2..Len(tok) : tok[i] \in Lower \cup Digit \cup {"_"}

GtsPrefix == <<"g","t","s",".">>
MaxIDLength == 1024

\* the absent minor version (VerMinor == nil)
NoMinor == <<>>

-----------------------------------------------------------------------------
(* Identifier model: gts.go                                                 *)

\* splitPreservingTilde: split by ~ keeping the ~ on every non-final piece; a
\* trailing empty piece after the next-to-last piece is dropped
splitPreservingTilde(s) ==
    LET ps == Split(s, "~")
        n  == Len(ps)
    IN  IF n >= 2 /\ ps[n] = <<>>
        THEN [i \in 1..(n - 1) |-> ps[i] \o <<"~">>]
        ELSE [i \in 1..n |-> IF i < n THEN ps[i] \o <<"~">> ELSE ps[i]]

EmptySegment ==
    [Num |-> 0, Offset |-> 0, Segment |-> <<>>, Vendor |-> <<>>, Package |-> <<>>,
     Namespace |-> <<>>, Type |-> <<>>, VerMajor |-> IntZero,
     VerMinor |-> NoMinor,
     IsType |-> FALSE, IsWildcard |-> FALSE]

SegErr(cause) == [err |-> cause, seg |-> EmptySegment]

\* parseSegment: err = "" on success
parseSegment(num, offset, segment) ==
    LET trimmed == TrimSpace(segment)
        tildes  == CountCh(trimmed, "~")
        isType  == tildes > 0 /\ HasSuffix(trimmed, <<"~">>)
        working == IF isType THEN SubSeq(trimmed, 1, Len(trimmed) - 1) ELSE trimmed
    IN  IF tildes > 1 THEN SegErr("Too many '~' characters")
        ELSE IF tildes = 1 /\ ~isType THEN SegErr(" '~' must be at the end")
        ELSE Only({
          LET n        == Len(tokens)
              endsStar == HasSuffix(working, <<"*">>)
              stars    == {i \in 1..n : tokens[i] = <<"*">>}
              \* index of the token at which the field-filling code returns, if any
              star     == IF stars = {} THEN 0 ELSE Min(stars)
              \* number of leading tokens that populate fields
              lim      == IF star = 0 THEN n ELSE star - 1
              majorStr == IF n >= 5 THEN Tail(tokens[5]) ELSE <<>>
              major    == Atoi(majorStr)
              minor    == IF n >= 6 THEN Atoi(tokens[6])
                          ELSE [ok |-> FALSE, val |-> IntZero]
              seg      == [Num        |-> num,
                           Offset     |-> offset,
                           Segment    |-> trimmed,
                           Vendor     |-> IF lim >= 1 THEN tokens[1] ELSE <<>>,
                           Package    |-> IF lim >= 2 THEN tokens[2] ELSE <<>>,
                           Namespace  |-> IF lim >= 3 THEN tokens[3] ELSE <<>>,
                           Type       |-> IF lim >= 4 THEN tokens[4] ELSE <<>>,
                           VerMajor   |-> IF lim >= 5 THEN major.val ELSE IntZero,
                           VerMinor   |-> IF lim >= 6 THEN minor.val ELSE NoMinor,
                           IsType     |-> isType,
                           IsWildcard |-> star # 0]
          IN  IF n > 6 THEN SegErr("Too many tokens")
              ELSE IF ~endsStar /\ n < 5 THEN SegErr("Too few tokens")
              ELSE IF ~endsStar /\ \E t \in 1..4 : ~segmentTokenRegex(tokens[t])
                   THEN SegErr("Invalid segment token")
              ELSE IF star \in 1..5 THEN [err |-> "", seg |-> seg]
              ELSE IF n >= 5 /\ ~HasPrefix(tokens[5], <<"v">>)
                   THEN SegErr("Major version must start with 'v'")
              ELSE IF n >= 5 /\ ~major.ok
                   THEN SegErr("Major version must be an integer")
              ELSE IF n >= 5 /\ IntNegative(major.val)
                   THEN SegErr("Major version must be >= 0")
              \* strconv.Itoa(major) is the text that holds major
              ELSE IF n >= 5 /\ major.val # majorStr
                   THEN SegErr("Major version must be an integer")
              ELSE IF star = 6 THEN [err |-> "", seg |-> seg]
              ELSE IF n >= 6 /\ ~minor.ok
                   THEN SegErr("Minor version must be an integer")
              ELSE IF n >= 6 /\ IntNegative(minor.val)
                   THEN SegErr("Minor version must be >= 0")
              ELSE IF n >= 6 /\ minor.val # tokens[6]
                   THEN SegErr("Minor version must be an integer")
              ELSE [err |-> "", seg |-> seg]
          : tokens \in {Split(working, ".")} })

\* the offset of the i-th of the pieces parts in the identifier text
RECURSIVE OffsetOf(_, _)
OffsetOf(parts, i) ==
    IF i = 1 THEN Len(GtsPrefix)
    ELSE OffsetOf(parts, i - 1) + ByteLen(parts[i - 1])

\* the part of NewGtsID and parseWildcardGtsID after the text validations: split
\* the remainder into segments and parse each in order, failing on the first
\* empty or invalid one
ParseSegments(raw) ==
    Only({
      IF \E i \in 1..Len(res) : res[i].err # ""
      THEN [err |-> res[Min({i \in 1..Len(res) : res[i].err # ""})].err,
            ID |-> <<>>, Segments |-> <<>>]
      ELSE [err |-> "", ID |-> raw, Segments |-> [i \in 1..Len(res) |-> res[i].seg]]
      : res \in {[i \in 1..Len(parts) |->
                    IF parts[i] = <<>> THEN SegErr("GTS segment is empty")
                    ELSE parseSegment(i, OffsetOf(parts, i), parts[i])]
                 : parts \in {splitPreservingTilde(
                                 SubSeq(raw, Len(GtsPrefix) + 1, Len(raw)))}} })

IDErr(cause) == [err |-> cause, ID |-> <<>>, Segments |-> <<>>]

\* NewGtsID keeping the text as given instead of the trimmed text
NewGtsIDUntrimmed(id) ==
    IF id # ToLower(id) THEN IDErr("Must be lower case")
    ELSE IF ContainsCh(id, "-") THEN IDErr("Must not contain '-'")
    ELSE IF ~HasPrefix(id, GtsPrefix) THEN IDErr("Does not start with 'gts.'")
    ELSE IF ByteLen(id) > MaxIDLength THEN IDErr("Too long")
    ELSE ParseSegments(id)

\* NewGtsID: err = "" on success
NewGtsID(id) ==
    LET raw == TrimSpace(id)
    IN  IF raw # ToLower(raw) THEN IDErr("Must be lower case")
        ELSE IF ContainsCh(raw, "-") THEN IDErr("Must not contain '-'")
        ELSE IF ~HasPrefix(raw, GtsPrefix) THEN IDErr("Does not start with 'gts.'")
        ELSE IF ByteLen(raw) > MaxIDLength THEN IDErr("Too long")
        ELSE ParseSegments(raw)

\* IsValidGtsID
IsValidGtsID(s) == HasPrefix(s, GtsPrefix) /\ NewGtsID(s).err = ""

\* (*GtsID).IsType
IsType(g) == HasSuffix(g.ID, <<"~">>)

-----------------------------------------------------------------------------
(* Wildcard matcher: match.go                                               *)

\* validateWildcardBase: "" when the base pattern passes
validateWildcardBase(basePattern) ==
    IF basePattern = <<>> THEN "empty base pattern"
    ELSE IF basePattern = <<"g","t","s">> THEN ""
    ELSE IF ~HasPrefix(basePattern, GtsPrefix) THEN "does not start with 'gts.'"
    ELSE IF ByteLen(basePattern) > MaxIDLength THEN "too long"
    ELSE IF basePattern # ToLower(basePattern) THEN "must be lower case"
    ELSE IF ContainsCh(basePattern, "-") THEN "must not contain '-'"
    ELSE ""

\* parseWildcardGtsID: the relaxed parse used for patterns
parseWildcardGtsID(id) ==
    LET raw == TrimSpace(id)
    IN  IF raw # ToLower(raw) THEN IDErr("Must be lower case")
        ELSE IF ContainsCh(raw, "-") THEN IDErr("Must not contain '-'")
        ELSE IF ~HasPrefix(raw, GtsPrefix) THEN IDErr("Does not start with 'gts.'")
        ELSE IF ByteLen(raw) > MaxIDLength THEN IDErr("Too long")
        ELSE ParseSegments(raw)

\* validateWildcard: err = "" on success
validateWildcard(pat) ==
    LET p             == TrimSpace(pat)
        wildcardCount == CountCh(p, "*")
        tempPattern   == ReplaceAll2(ReplaceAll2(p, <<".","*">>, <<>>),
                                     <<"~","*">>, <<"~">>)
        base          == validateWildcardBase(tempPattern)
    IN  IF ~HasPrefix(p, GtsPrefix) THEN IDErr("Does not start with 'gts.'")
        ELSE IF wildcardCount > 1
             THEN IDErr("The wildcard '*' token is allowed only once")
        ELSE IF wildcardCount = 1 /\ ~HasSuffix(p, <<".","*">>)
                                  /\ ~HasSuffix(p, <<"~","*">>)
             THEN IDErr("The wildcard '*' token is allowed only at the end of the pattern")
        ELSE IF base # "" THEN IDErr(base)
        ELSE parseWildcardGtsID(p)

\* the body of the matchSegments loop for one wildcard pattern segment
WildcardSegmentOK(pSeg, cSeg) ==
    /\ ~(pSeg.Vendor # <<>> /\ pSeg.Vendor # cSeg.Vendor)
    /\ ~(pSeg.Package # <<>> /\ pSeg.Package # cSeg.Package)
    /\ ~(pSeg.Namespace # <<>> /\ pSeg.Namespace # cSeg.Namespace)
    /\ ~(pSeg.Type # <<>> /\ pSeg.Type # cSeg.Type)
    /\ ~(pSeg.VerMajor # IntZero /\ pSeg.VerMajor # cSeg.VerMajor)
    /\ ~(pSeg.VerMinor # NoMinor
           /\ (cSeg.VerMinor = NoMinor \/ pSeg.VerMinor # cSeg.VerMinor))
    /\ ~(pSeg.IsType /\ pSeg.IsType # cSeg.IsType)

\* the non-wildcard comparison with the minor versions compared always
ExactSegmentOKStrict(pSeg, cSeg) ==
    /\ pSeg.Vendor = cSeg.Vendor
    /\ pSeg.Package = cSeg.Package
    /\ pSeg.Namespace = cSeg.Namespace
    /\ pSeg.Type = cSeg.Type
    /\ pSeg.VerMajor = cSeg.VerMajor
    /\ pSeg.VerMinor = cSeg.VerMinor
    /\ pSeg.IsType = cSeg.IsType

\* the body of the matchSegments loop for one non-wildcard pattern segment
ExactSegmentOK(pSeg, cSeg) ==
    /\ pSeg.Vendor = cSeg.Vendor
    /\ pSeg.Package = cSeg.Package
    /\ pSeg.Namespace = cSeg.Namespace
    /\ pSeg.Type = cSeg.Type
    /\ pSeg.VerMajor = cSeg.VerMajor
    /\ (pSeg.VerMinor # NoMinor =>
           (cSeg.VerMinor # NoMinor /\ pSeg.VerMinor = cSeg.VerMinor))
    /\ pSeg.IsType = cSeg.IsType

\* the matchSegments loop from pattern segment i on
RECURSIVE MatchFrom(_, _, _)
MatchFrom(patternSegs, candidateSegs, i) ==
    IF i > Len(patternSegs) THEN TRUE
    ELSE IF patternSegs[i].IsWildcard
         THEN WildcardSegmentOK(patternSegs[i], candidateSegs[i])
         ELSE /\ ExactSegmentOK(patternSegs[i], candidateSegs[i])
              /\ MatchFrom(patternSegs, candidateSegs, i + 1)

\* matchSegments with the length guard dropped: only the segments both sides
\* have are compared
matchSegmentsNoLengthGuard(patternSegs, candidateSegs) ==
    MatchFrom(SubSeq(patternSegs, 1, Min({Len(patternSegs), Len(candidateSegs)})),
              candidateSegs, 1)

\* matchSegments
matchSegments(patternSegs, candidateSegs) ==
    IF Len(patternSegs) > Len(candidateSegs) THEN FALSE
    ELSE MatchFrom(patternSegs, candidateSegs, 1)

\* wildcardMatch, on two successfully parsed identifiers
wildcardMatch(cand, pat) ==
    IF ~ContainsCh(pat.ID, "*") THEN matchSegments(pat.Segments, cand.Segments)
    ELSE IF CountCh(pat.ID, "*") > 1 \/ ~HasSuffix(pat.ID, <<"*">>) THEN FALSE
    ELSE matchSegments(pat.Segments, cand.Segments)

\* MatchIDPattern that goes on to match when the pattern is not valid
MatchIDPatternUnchecked(cand, pat) ==
    Only({
      IF candidateID.err # "" THEN [Match |-> FALSE, Error |-> candidateID.err]
      ELSE [Match |-> wildcardMatch(candidateID, patternID), Error |-> ""]
      : candidateID \in {IF ContainsCh(cand, "*") THEN validateWildcard(cand)
                         ELSE NewGtsID(cand)},
        patternID \in {validateWildcard(pat)} })

\* MatchIDPattern
MatchIDPattern(cand, pat) ==
    Only({
      IF candidateID.err # "" THEN [Match |-> FALSE, Error |-> candidateID.err]
      ELSE IF patternID.err # "" THEN [Match |-> FALSE, Error |-> patternID.err]
      ELSE [Match |-> wildcardMatch(candidateID, patternID), Error |-> ""]
      : candidateID \in {IF ContainsCh(cand, "*") THEN validateWildcard(cand)
                         ELSE NewGtsID(cand)},
        patternID \in {validateWildcard(pat)} })

-----------------------------------------------------------------------------
(* Inputs of the identifier runs.  An identifier text is assembled as        *)
(* padding, the prefix, up to MaxSegs segment texts, padding.                *)

MaxSegs == 2

RECURSIVE Cat(_)
Cat(ss) == IF ss = <<>> THEN <<>> ELSE Head(ss) \o Cat(Tail(ss))

\* sequences over S of every length from 0 to n
RECURSIVE SeqsUpTo(_, _)
SeqsUpTo(S, n) ==
    IF n = 0 THEN {<<>>}
    ELSE LET shorter == SeqsUpTo(S, n - 1)
         IN  shorter \cup {Append(q, x) : q \in {r \in shorter : Len(r) = n - 1}, x \in S}

Tilded(S) == S \cup {s \o <<"~">> : s \in S}

\* non-final segment texts of the parser runs
ParseInnerSegs ==
    { <<"a",".","b",".","c",".","d",".","v","1","~">>,
      <<"a",".","b",".","c",".","d",".","v","1",".","0","~">>,
      <<" ","x",".","b",".","c",".","d",".","v","2","~">> }

\* final segment texts of the parser runs, well formed and malformed
ParseFinalSegs ==
    { <<"a",".","b",".","c",".","d",".","v","1">>,
      <<"a",".","b",".","c",".","d",".","v","1",".","0">>,
      <<"a",".","b",".","c",".","d",".","v","0">>,
      <<"a",".","b",".","c",".","d",".","v","1","0",".","1","2">>,
      <<"a",".","b",".","c",".","d",".","v","0","1">>,
      <<"a",".","b",".","c",".","d",".","v","1",".","0","1">>,
      <<"a",".","b",".","c",".","d",".","1">>,
      <<"a",".","b",".","c",".","d">>,
      <<"a",".","b",".","c",".","d",".","v","1",".","0",".","0">>,
      <<"a",".","b",".","c",".","9","d",".","v","1">>,
      <<"a",".","b",".","c",".","d",".","v">>,
      <<"a",".","b",".","c",".","d",".","v","+","1">>,
      <<"a",".","b","-","c",".","d",".","e",".","v","1">>,
      <<"a",".","B",".","c",".","d",".","v","1">>,
      <<"a",".",Rune(201),".","c",".","d",".","v","1">>,
      <<"a",".","b",".","c",".","d",".","v","9","9","9","9","9","9","9","9","9","9","9">>,
      <<"a",".","b",".","c",".","d",".","v","1",".","9","9","9","9","9","9","9","9","9","9","9","9","9","9","9","9","9","9","9","9">>,
      <<"_",".","b","_","2",".","c",".","d",".","v","1">>,
      <<"*">>,
      <<"a",".","*">>,
      <<"a",".","b",".","c",".","d",".","*">>,
      <<"a",".","b",".","c",".","d",".","v","1",".","*">>,
      <<"a","*">>,
      <<"a",".","b",".","c",".","d","*">>,
      <<"*",".","*">>,
      <<"a",".","b",".","c",".","d",".","*",".","1">>,
      <<" ","a",".","b",".","c",".","d",".","v","1">>,
      <<"a",".","b",".","c",".","d",".","v","1"," ">>,
      <<>>,
      <<"a",".","b",".","c",".","d",".","v","1","~">> }

Paddings == {<<>>, <<" ">>, <<"\f", Rune(8195)>>}

\* texts at the length limit: the prefix, n times the character c and ".*",
\* of MaxIDLength bytes with 1018 characters of one byte or 509 of two bytes.
\* The grave accent and the control character U+0001 take one byte each.
LongText(n, c) == GtsPrefix \o [i \in 1..n |-> c] \o <<".", "*">>
LongInputs ==
    { LongText(MaxIDLength - 6, "a"),
      LongText(MaxIDLength - 5, "a"),
      LongText((MaxIDLength \div 2) - 3, Rune(233)),
      LongText((MaxIDLength \div 2) - 2, Rune(233)),
      LongText((MaxIDLength \div 2) - 2, Rune(96)),
      LongText(MaxIDLength - 6, Rune(1)),
      LongText(MaxIDLength - 5, Rune(1)) }

ParseInputs ==
    {Cat(<<lead, GtsPrefix, Cat(inner), last, trail>>) :
        lead \in Paddings, trail \in Paddings,
        inner \in SeqsUpTo(ParseInnerSegs, MaxSegs - 1),
        last \in Tilded(ParseFinalSegs)}
    \cup {<<"G","t","s",".","a",".","b",".","c",".","d",".","v","1">>,
          <<"g","t","s","a",".","b",".","c",".","d",".","v","1">>,
          <<"g","t","s",".",Rune(96),".","*","~","a",".","b",".","c",".","d",".","v","1">>}
    \cup LongInputs

GlobalWildcard == <<"g","t","s",".","*">>

\* non-final (type) segment texts of the matcher runs
MatchInnerSegs ==
    { <<"a",".","b",".","c",".","d",".","v","1","~">>,
      <<"x",".","b",".","c",".","d",".","v","1",".","0","~">> }

\* final concrete segment texts of the matcher runs
MatchFinalSegs ==
    { <<"a",".","b",".","c",".","d",".","v","1">>,
      <<"a",".","b",".","c",".","d",".","v","1",".","0">>,
      <<"a",".","b",".","c",".","d",".","v","1",".","1">>,
      <<"a",".","b",".","c",".","d",".","v","2">>,
      <<"a",".","b",".","c",".","d",".","v","0">>,
      <<"x",".","b",".","c",".","d",".","v","1",".","0">> }

\* final wildcard segment texts of the matcher runs
MatchWildSegs ==
    { <<"*">>,
      <<"a",".","*">>,
      <<"a",".","b",".","c",".","d",".","*">>,
      <<"a",".","b",".","c",".","d",".","v","1",".","*">>,
      <<"a",".","b",".","c",".","d",".","v","0",".","*">> }

MatchCandidates ==
    {Cat(<<GtsPrefix, Cat(inner), last>>) :
        inner \in SeqsUpTo(MatchInnerSegs, MaxSegs - 1),
        last \in Tilded(MatchFinalSegs)}

MatchPatterns ==
    {Cat(<<GtsPrefix, Cat(inner), last>>) :
        inner \in SeqsUpTo(MatchInnerSegs, MaxSegs - 1),
        last \in Tilded(MatchFinalSegs) \cup MatchWildSegs}

-----------------------------------------------------------------------------
(* Identifier runs: NewGtsID on the candidate, then MatchIDPattern.          *)

NotParsed == [err |-> "not parsed", ID |-> <<>>, Segments |-> <<>>]
NotMatched == [Match |-> FALSE, Error |-> "not matched"]

\* the variables of the other operation families, left alone by these runs
ResolverIdle ==
    /\ rootID = <<>> /\ seen = {} /\ stack = <<>>
    /\ graph = <<>> /\ steps = 0
GraphIdle ==
    /\ byID = <<>> /\ ResolverIdle
CastIdle ==
    /\ heap = <<>> /\ castArgs = <<>> /\ castResult = <<>>
QueryIdle ==
    /\ queryArgs = <<>> /\ queryResult = <<>>
ReaderIdle ==
    /\ reader = <<>> /\ readLog = <<>>
StoreIdle ==
    /\ config = <<>> /\ storeResult = <<>>
XrefIdle ==
    /\ xref = <<>>
IdIdle ==
    /\ candidate = <<>> /\ pattern = <<>>
    /\ parsed = NotParsed /\ matchResult = NotMatched

InitParse ==
    /\ mode = "id" /\ pc = "start"
    /\ candidate \in ParseInputs
    /\ pattern = GlobalWildcard
    /\ parsed = NotParsed /\ matchResult = NotMatched
    /\ GraphIdle /\ CastIdle /\ QueryIdle /\ ReaderIdle /\ StoreIdle /\ XrefIdle

InitMatch ==
    /\ mode = "id" /\ pc = "start"
    /\ candidate \in MatchCandidates
    /\ pattern \in MatchPatterns
    /\ parsed = NotParsed /\ matchResult = NotMatched
    /\ GraphIdle /\ CastIdle /\ QueryIdle /\ ReaderIdle /\ StoreIdle /\ XrefIdle

DoNewGtsID ==
    /\ mode = "id" /\ pc = "start"
    /\ parsed' = NewGtsID(candidate)
    /\ pc' = "parsed"
    /\ UNCHANGED <<mode, candidate, pattern, matchResult, byID, rootID, seen,
                   stack, graph, steps, heap, castArgs, castResult,
                   queryArgs, queryResult,
                   reader, readLog,
                   config, storeResult, xref>>

DoMatchIDPattern ==
    /\ mode = "id" /\ pc = "parsed"
    /\ matchResult' = MatchIDPattern(candidate, pattern)
    /\ pc' = "done"
    /\ UNCHANGED <<mode, candidate, pattern, parsed, byID, rootID, seen,
                   stack, graph, steps, heap, castArgs, castResult,
                   queryArgs, queryResult,
                   reader, readLog,
                   config, storeResult, xref>>

NextID == DoNewGtsID \/ DoMatchIDPattern

SpecParse == InitParse /\ [][NextID]_vars
SpecMatch == InitMatch /\ [][NextID]_vars

-----------------------------------------------------------------------------
(* Properties of the identifier runs                                        *)

PatternID == validateWildcard(pattern)
MatchRan == mode = "id" /\ pc = "done"
BothValid == parsed.err = "" /\ matchResult.Error = ""

\* C5: a valid pattern with strictly more segments than the valid candidate
\* never matches.
C5_LongerPatternNeverMatches ==
    (MatchRan /\ BothValid /\ Len(PatternID.Segments) > Len(parsed.Segments))
        => matchResult.Match = FALSE

\* C5 witness: the pattern is longer than the candidate and agrees with it on
\* every segment the candidate has, so only the length decides.
C5_Witness ==
    /\ MatchRan /\ BothValid
    /\ Len(PatternID.Segments) > Len(parsed.Segments)
    /\ MatchFrom(SubSeq(PatternID.Segments, 1, Len(parsed.Segments)),
                 parsed.Segments, 1)

\* C6: with a pattern that contains no wildcard, a candidate that has more
\* segments than the pattern does not match.
C6_NoWildcardNoLeftover ==
    (MatchRan /\ BothValid /\ ~ContainsCh(pattern, "*")
        /\ Len(parsed.Segments) > Len(PatternID.Segments))
        => matchResult.Match = FALSE

\* C7: every text NewGtsID accepts matches the pattern gts.* with an empty
\* Error.
C7_EveryValidIDMatchesGlobalWildcard ==
    (MatchRan /\ pattern = GlobalWildcard /\ parsed.err = "")
        => (matchResult.Match = TRUE /\ matchResult.Error = "")

Parsed == mode = "id" /\ pc # "start" /\ parsed.err = ""

\* C8 (as claimed): the parsed text is the trimmed input, and IsType() is true
\* exactly when the input text itself ends with ~.
C8_TextAndIsTypeOfInput ==
    Parsed => /\ parsed.ID = TrimSpace(candidate)
              /\ IsType(parsed) = HasSuffix(candidate, <<"~">>)

\* C8 (amended): the parsed text is the trimmed input, and IsType() is true
\* exactly when the trimmed input ends with ~.
C8_TextAndIsTypeOfNormalized ==
    Parsed => /\ parsed.ID = TrimSpace(candidate)
              /\ IsType(parsed) = HasSuffix(TrimSpace(candidate), <<"~">>)

\* C8 witness: an accepted type identifier whose input carried padding.
C8_Witness ==
    Parsed /\ candidate # TrimSpace(candidate) /\ IsType(parsed)

\* C9: the prefix followed by the stored text of every segment, in order,
\* reproduces the identifier's normalized text.
C9_SegmentsReserialize ==
    Parsed => GtsPrefix \o Cat([i \in 1..Len(parsed.Segments) |->
                                   parsed.Segments[i].Segment]) = parsed.ID

\* number of dot-separated tokens of a stored segment text
TokenCount(seg) ==
    Len(Split(IF HasSuffix(seg.Segment, <<"~">>)
              THEN SubSeq(seg.Segment, 1, Len(seg.Segment) - 1)
              ELSE seg.Segment, "."))

\* C10: every segment of an accepted identifier has at least 5 tokens unless it
\* is flagged as a wildcard segment.
C10_FiveTokensUnlessWildcard ==
    Parsed => \A i \in 1..Len(parsed.Segments) :
                  parsed.Segments[i].IsWildcard \/ TokenCount(parsed.Segments[i]) >= 5

-----------------------------------------------------------------------------
(* Relationship graph resolver: relationships.go                            *)

Take(s, n) == SubSeq(s, 1, n)

HttpScheme == <<"h","t","t","p",":","/","/">>
HttpsScheme == <<"h","t","t","p","s",":","/","/">>
HttpJsonSchemaOrg == <<"h","t","t","p",":","/","/","j","s","o","n","-","s","c","h","e","m","a",".","o","r","g">>
HttpsJsonSchemaOrg == <<"h","t","t","p","s",":","/","/","j","s","o","n","-","s","c","h","e","m","a",".","o","r","g">>

\* isJSONSchemaURL compares a 23 character prefix with a 22 character literal
\* and a 24 character prefix with a 23 character literal.
isJSONSchemaURL(s) ==
    /\ Len(s) > 7
    /\ (Take(s, 7) = HttpScheme \/ Take(s, 8) = HttpsScheme)
    /\ \/ (Len(s) > 22 /\ Take(s, 23) = HttpJsonSchemaOrg)
       \/ (Len(s) > 23 /\ Take(s, 24) = HttpsJsonSchemaOrg)

\* SchemaGraphNode; the optional SchemaID child is a sequence of 0 or 1 nodes,
\* a nil Refs map is the empty function, nil Errors the empty sequence
NewNode(gtsID) ==
    [ID |-> gtsID, Refs |-> <<>>, SchemaID |-> <<>>, Errors |-> <<>>]

\* GtsStore.Get of a store built with a nil reader (or with the file reader,
\* whose ReadByID returns nil): the entity as a sequence of 0 or 1 entities
Get(gtsID) == IF gtsID \in DOMAIN byID THEN <<byID[gtsID]>> ELSE <<>>

\* mutants of the seen check
NeverSeen(seenSet, gtsID) == FALSE
SeenAnything(seenSet, gtsID) == seenSet # {}

\* seen[gtsID]
AlreadySeen(seenSet, gtsID) == gtsID \in seenSet

\* buildNode that returns the node of an entity it cannot find without an error
buildNodeEnterSilent(gtsID, seenSet) ==
    IF AlreadySeen(seenSet, gtsID)
    THEN [expand |-> FALSE, node |-> NewNode(gtsID), seen |-> seenSet]
    ELSE IF Get(gtsID) = <<>>
    THEN [expand |-> FALSE, node |-> NewNode(gtsID),
          seen |-> seenSet \cup {gtsID}]
    ELSE [expand |-> TRUE, node |-> NewNode(gtsID),
          seen |-> seenSet \cup {gtsID}]

\* The head of buildNode (the seen check, the marking, the lookup): either the
\* node it returns at once, or the node it goes on to expand.
buildNodeEnter(gtsID, seenSet) ==
    IF AlreadySeen(seenSet, gtsID)
    THEN [expand |-> FALSE, node |-> NewNode(gtsID), seen |-> seenSet]
    ELSE IF Get(gtsID) = <<>>
    THEN [expand |-> FALSE,
          node |-> [NewNode(gtsID) EXCEPT !.Errors = <<"Entity not found">>],
          seen |-> seenSet \cup {gtsID}]
    ELSE [expand |-> TRUE, node |-> NewNode(gtsID),
          seen |-> seenSet \cup {gtsID}]

\* an activation of buildNode: the node under construction, the references
\* the loop has not reached yet, whether the schema id step ran, and the place
\* of the caller the returned node goes to
NewFrame(node, slot, path) ==
    [node |-> node, todo |-> byID[node.ID].GtsRefs, schemaDone |-> FALSE,
     slot |-> slot, path |-> path]

\* the caller's assignment of a returned node: refs[ref.SourcePath] = ... or
\* node.SchemaID = ...
Attach(frame, slot, path, child) ==
    IF slot = "ref"
    THEN [frame EXCEPT !.node.Refs = (path :> child) @@ frame.node.Refs]
    ELSE [frame EXCEPT !.node.SchemaID = <<child>>]

Top == stack[Len(stack)]
SetTop(frame) == [stack EXCEPT ![Len(stack)] = frame]

-----------------------------------------------------------------------------
(* Registries and roots of the graph runs                                   *)

IdA == <<"g","t","s",".","x",".","c","o","r","e",".","c","y","c","l","e",".","a",".","v","1","~">>
IdB == <<"g","t","s",".","x",".","c","o","r","e",".","c","y","c","l","e",".","b",".","v","1","~">>
IdC == <<"g","t","s",".","x",".","c","o","r","e",".","c","y","c","l","e",".","c",".","v","1","~">>
GraphIDs == {IdA, IdB, IdC}
MetaSchemaURL == <<"h","t","t","p",":","/","/","j","s","o","n","-","s","c","h","e","m","a",".","o","r","g","/","d","r","a","f","t","-","0","7","/","s","c","h","e","m","a","#">>

\* total number of references (an entity's reference to itself included) and
\* of schema-id links to entities in a registry
MaxEdges == 3
\* cap on the depth of nested buildNode activations; the seen set keeps the
\* depth at the number of registered entities, which is below the cap
MaxDepth == 5

DistinctSeqs(S) ==
    {s \in SeqsUpTo(S, Cardinality(S)) :
        \A i, j \in 1..Len(s) : i # j => s[i] # s[j]}

\* "$id" for an entity's own identifier, "properties.<name>.$ref" otherwise
RefPath(own, target) ==
    IF target = own THEN <<"$","i","d">>
    ELSE <<"p","r","o","p","e","r","t","i","e","s",".">> \o <<target[18]>> \o <<".","$","r","e","f">>

SchemaKinds ==
    {[sid |-> <<>>, isSchema |-> TRUE], [sid |-> <<>>, isSchema |-> FALSE],
     [sid |-> MetaSchemaURL, isSchema |-> TRUE]}
    \cup {[sid |-> x, isSchema |-> FALSE] : x \in GraphIDs}

Absent == [present |-> FALSE, refs |-> <<>>, kind |-> [sid |-> <<>>, isSchema |-> TRUE]]
Shapes ==
    {Absent} \cup
    {[present |-> TRUE, refs |-> ts, kind |-> k] :
        ts \in DistinctSeqs(GraphIDs), k \in SchemaKinds}

\* what extractGtsReferences and calcJSONSchemaID leave in a JsonEntity
Entity(own, shape) ==
    [GtsID |-> own,
     GtsRefs |-> [i \in 1..Len(shape.refs) |->
                    [ID |-> shape.refs[i],
                     SourcePath |-> RefPath(own, shape.refs[i])]],
     SchemaID |-> shape.kind.sid,
     IsSchema |-> shape.kind.isSchema]

Registry(f) ==
    [x \in {y \in GraphIDs : f[y].present} |-> Entity(x, f[x])]

EdgesOf(shape) ==
    Len(shape.refs) + (IF shape.kind.sid \in GraphIDs THEN 1 ELSE 0)

EdgeCount(f) == EdgesOf(f[IdA]) + EdgesOf(f[IdB]) + EdgesOf(f[IdC])

RootIDs == {IdA}

-----------------------------------------------------------------------------
(* Graph runs: BuildSchemaGraph as a sequence of buildNode steps            *)

InitGraph ==
    /\ mode = "graph" /\ pc = "start"
    /\ \E f \in [GraphIDs -> Shapes] :
          EdgeCount(f) <= MaxEdges /\ byID = Registry(f)
    /\ rootID \in RootIDs
    /\ seen = {} /\ stack = <<>> /\ graph = <<>> /\ steps = 0
    /\ IdIdle /\ CastIdle /\ QueryIdle /\ ReaderIdle /\ StoreIdle /\ XrefIdle

\* BuildSchemaGraph: a fresh seen set and the call of buildNode for the root
BuildSchemaGraph ==
    /\ mode = "graph" /\ pc = "start"
    /\ LET r == buildNodeEnter(rootID, {}) IN
         /\ seen' = r.seen
         /\ steps' = steps + 1
         /\ IF r.expand
            THEN /\ stack' = <<NewFrame(r.node, "root", <<>>)>>
                 /\ pc' = "run"
                 /\ graph' = graph
            ELSE /\ stack' = <<>>
                 /\ pc' = "done"
                 /\ graph' = r.node
    /\ UNCHANGED <<mode, candidate, pattern, parsed, matchResult, byID, rootID,
                   heap, castArgs, castResult,
                   queryArgs, queryResult,
                   reader, readLog,
                   config, storeResult, xref>>

\* one iteration of the loop over entity.GtsRefs
VisitRef ==
    /\ mode = "graph" /\ pc = "run" /\ Top.todo # <<>>
    /\ LET ref == Head(Top.todo)
           rest == [Top EXCEPT !.todo = Tail(Top.todo)]
           r == buildNodeEnter(ref.ID, seen)
       IN IF ref.ID = Top.node.ID \/ isJSONSchemaURL(ref.ID)
          THEN /\ stack' = SetTop(rest)
               /\ UNCHANGED <<seen, steps,
                   reader, readLog,
                   config, storeResult, xref>>
          ELSE /\ seen' = r.seen
               /\ steps' = steps + 1
               /\ IF r.expand
                  THEN /\ Len(stack) < MaxDepth
                       /\ stack' = Append(SetTop(rest),
                                          NewFrame(r.node, "ref", ref.SourcePath))
                  ELSE stack' = SetTop(Attach(rest, "ref", ref.SourcePath, r.node))
    /\ UNCHANGED <<mode, pc, candidate, pattern, parsed, matchResult, byID,
                   rootID, graph, heap, castArgs, castResult,
                   queryArgs, queryResult,
                   reader, readLog,
                   config, storeResult, xref>>

\* after the loop: the schema id step
VisitSchemaID ==
    /\ mode = "graph" /\ pc = "run" /\ Top.todo = <<>> /\ ~Top.schemaDone
    /\ LET entity == byID[Top.node.ID]
           after == [Top EXCEPT !.schemaDone = TRUE]
           r == buildNodeEnter(entity.SchemaID, seen)
       IN IF entity.SchemaID # <<>> /\ ~isJSONSchemaURL(entity.SchemaID)
          THEN /\ seen' = r.seen
               /\ steps' = steps + 1
               /\ IF r.expand
                  THEN /\ Len(stack) < MaxDepth
                       /\ stack' = Append(SetTop(after),
                                          NewFrame(r.node, "schema", <<>>))
                  ELSE stack' = SetTop(Attach(after, "schema", <<>>, r.node))
          ELSE /\ UNCHANGED <<seen, steps,
                   reader, readLog,
                   config, storeResult, xref>>
               /\ IF entity.SchemaID = <<>> /\ ~entity.IsSchema
                  THEN stack' = SetTop([after EXCEPT !.node.Errors =
                                   Append(@, "Schema not recognized")])
                  ELSE stack' = SetTop(after)
    /\ UNCHANGED <<mode, pc, candidate, pattern, parsed, matchResult, byID,
                   rootID, graph, heap, castArgs, castResult,
                   queryArgs, queryResult,
                   reader, readLog,
                   config, storeResult, xref>>

\* return node
ReturnNode ==
    /\ mode = "graph" /\ pc = "run" /\ Top.todo = <<>> /\ Top.schemaDone
    /\ IF Len(stack) = 1
       THEN /\ graph' = Top.node
            /\ pc' = "done"
            /\ stack' = <<>>
       ELSE /\ stack' = [SubSeq(stack, 1, Len(stack) - 1) EXCEPT
                           ![Len(stack) - 1] =
                               Attach(stack[Len(stack) - 1], Top.slot, Top.path,
                                      Top.node)]
            /\ UNCHANGED <<graph, pc,
                   reader, readLog,
                   config, storeResult, xref>>
    /\ UNCHANGED <<mode, candidate, pattern, parsed, matchResult, byID, rootID,
                   seen, steps, heap, castArgs, castResult,
                   queryArgs, queryResult,
                   reader, readLog,
                   config, storeResult, xref>>

NextGraph == BuildSchemaGraph \/ VisitRef \/ VisitSchemaID \/ ReturnNode

SpecGraph == InitGraph /\ [][NextGraph]_vars
\* the call runs to completion once started: no step of it waits on anything
SpecGraphFair == SpecGraph /\ WF_vars(NextGraph)

-----------------------------------------------------------------------------
(* Properties of the graph runs                                             *)

GraphDone == mode = "graph" /\ pc = "done"
Refers(x, y) ==
    /\ x \in DOMAIN byID
    /\ \E i \in DOMAIN byID[x].GtsRefs : byID[x].GtsRefs[i].ID = y

\* C1: BuildSchemaGraph terminates for every registry content and every root,
\* cycles of references and schema-id links included: every started call
\* reaches its return, with the finite graph it built.
C1_BuildSchemaGraphTerminates == <>(pc = "done")

\* C1 witness: a call that returned on a registry whose references and
\* schema-id link form a cycle of length three through the root.
C1_Witness ==
    /\ GraphDone /\ rootID = IdA
    /\ Refers(IdA, IdB)
    /\ IdB \in DOMAIN byID /\ byID[IdB].SchemaID = IdC
    /\ Refers(IdC, IdA)

MutualAB == GraphDone /\ rootID = IdA /\ Refers(IdA, IdB) /\ Refers(IdB, IdA)
NestedB == RefPath(IdA, IdB)
NestedA == RefPath(IdB, IdA)
OtherRefs(x) == SelectSeq(byID[x].GtsRefs, LAMBDA r : r.ID # x)

\* C2 as stated: for registered A and B that reference each other, in the
\* graph built from root A the node for B placed under A carries no refs.
C2_BUnderAIsLeaf ==
    MutualAB => DOMAIN graph.Refs[NestedB].Refs = {}

\* C2 amended: for registered A and B that reference each other, in the graph
\* built from root A, when the reference to B is the first reference to
\* another entity in A's list, the node for B placed under A is expanded (it
\* carries B's reference to A) and the node for A placed under that node is
\* the non-expanded leaf: no refs, no schema node, no errors.
C2_AUnderBIsLeaf ==
    (MutualAB /\ OtherRefs(IdA)[1].ID = IdB) =>
        LET b == graph.Refs[NestedB] IN
            /\ b.ID = IdB
            /\ NestedA \in DOMAIN b.Refs
            /\ b.Refs[NestedA] = NewNode(IdA)

\* C2 witness: the graph of root A was built on a registry where A and B
\* reference each other, A referring to itself first and to B next.
C2_Witness ==
    /\ MutualAB /\ OtherRefs(IdA)[1].ID = IdB
    /\ Len(byID[IdA].GtsRefs) = 2 /\ byID[IdA].GtsRefs[1].ID = IdA

\* the nodes of a graph, each with its place: the source paths and schema_id
\* steps that lead to it from the root
RECURSIVE Placed(_, _)
Placed(node, place) ==
    {<<place, node>>}
    \cup UNION {Placed(node.Refs[p], Append(place, p)) : p \in DOMAIN node.Refs}
    \cup (IF node.SchemaID = <<>> THEN {}
          ELSE Placed(node.SchemaID[1], Append(place, <<"schema_id">>)))

\* the nodes of the returned graph whose identifier is x
NodesFor(x) == {pn \in Placed(graph, <<>>) : pn[2].ID = x}
NotFoundNode(x) == [NewNode(x) EXCEPT !.Errors = <<"Entity not found">>]

\* C15 (as stated): every node of the returned graph whose identifier is not
\* registered carries the error "Entity not found".
C15_EveryMissingNodeCarriesError ==
    GraphDone =>
        \A pn \in Placed(graph, <<>>) :
            pn[2].ID \notin DOMAIN byID =>
                "Entity not found" \in Range(pn[2].Errors)

\* C15 (amended): for every identifier of the returned graph that is not
\* registered, exactly one node carries the error "Entity not found" and
\* nothing else, and every other node for that identifier is an empty leaf.
C15_FirstMissingNodeCarriesError ==
    GraphDone =>
        \A pn \in Placed(graph, <<>>) :
            LET x == pn[2].ID IN
            x \notin DOMAIN byID =>
                /\ Cardinality({qn \in NodesFor(x) : qn[2] = NotFoundNode(x)}) = 1
                /\ \A qn \in NodesFor(x) :
                      qn[2] = NotFoundNode(x) \/ qn[2] = NewNode(x)

\* the graph of a root that reaches an unregistered identifier twice: one of
\* the two nodes carries the error, the other is an empty leaf
C15_Witness ==
    /\ GraphDone
    /\ \E x \in GraphIDs \ DOMAIN byID :
          /\ Cardinality(NodesFor(x)) = 2
          /\ \E qn \in NodesFor(x) : qn[2] = NotFoundNode(x)
          /\ \E qn \in NodesFor(x) : qn[2] = NewNode(x)

-----------------------------------------------------------------------------
(* JSON content: map[string]any values on a heap                            *)

\* the characters of a string literal
Chars(s) == [i \in 1..Len(s) |-> SubSeq(s, i, i)]

\* A value of type any is a tagged pair.  A map[string]any is a reference
\* ("map", address) to a heap object, a function from keys to values; address
\* Nil is the nil map.  A []any is carried by value: no code of the cast or of
\* the compatibility check assigns to an element of a slice it did not make.
\* ("obj", fields) is a document written out as a tree, with no sharing.
Nil == 0
JStr(s) == [t |-> "str", v |-> s]
JNum(n) == [t |-> "num", v |-> n]
JBool(b) == [t |-> "bool", v |-> b]
JNull == [t |-> "null", v |-> 0]
JArr(items) == [t |-> "arr", v |-> items]
JMap(a) == [t |-> "map", v |-> a]
JObj(fields) == [t |-> "obj", v |-> fields]

\* the object behind a map reference; reading a nil map finds no key
Obj(h, a) == IF a = Nil THEN <<>> ELSE h[a]
Has(m, k) == k \in DOMAIN m

\* An operator's argument is evaluated where the operator first uses it.  The
\* operators that thread the heap through a computation start by evaluating
\* the heap they are given, so that the steps are evaluated in program order.
Evaluated(x) == x = x

\* make(map[string]any) followed by the writes that fill it
Alloc(h, fields) == [h |-> Append(h, fields), a |-> Len(h) + 1]
\* m[k] = v and delete(m, k) on the map at address a
Store(h, a, k, v) == [h EXCEPT ![a] = (k :> v) @@ @]
Delete(h, a, k) == [h EXCEPT ![a] = [x \in DOMAIN @ \ {k} |-> @[x]]]

\* Go's string comparison is by bytes, which is by code points
CharCode(c) == CodePoint(c)
StrLess(a, b) ==
    \E i \in 1..(Len(a) + 1) :
        /\ i <= Len(b)
        /\ \A j \in 1..(i - 1) : a[j] = b[j]
        /\ (i = Len(a) + 1 \/ CharCode(a[i]) < CharCode(b[i]))

\* sort.Strings of a set of strings
RECURSIVE SortStrings(_)
SortStrings(S) ==
    IF S = {} THEN <<>>
    ELSE LET m == CHOOSE x \in S : \A y \in S \ {x} : StrLess(x, y)
         IN <<m>> \o SortStrings(S \ {m})

\* The order in which a range loop visits the keys of a map is not fixed by
\* the language, and every execution of a loop has an order of its own.
\* Orders(S) is the set of the orders in which the keys S can be visited.  An
\* operator that executes such a loop is the set of the outcomes the call can
\* have, one for every order of every loop it executes.
RECURSIVE Orders(_)
Orders(S) ==
    IF S = {} THEN {<<>>}
    ELSE UNION {{<<k>> \o rest : rest \in Orders(S \ {k})} : k \in S}

\* a document tree written to the heap, and the tree read back from a value
RECURSIVE Load(_, _)
RECURSIVE LoadFields(_, _, _, _)
RECURSIVE LoadItems(_, _, _, _)
LoadFields(h, fields, keys, acc) ==
    CASE Evaluated(h) ->
    IF keys = <<>> THEN [h |-> h, v |-> acc]
    ELSE LET r == Load(h, fields[Head(keys)])
         IN LoadFields(r.h, fields, Tail(keys), (Head(keys) :> r.v) @@ acc)
LoadItems(h, items, i, acc) ==
    CASE Evaluated(h) ->
    IF i > Len(items) THEN [h |-> h, v |-> acc]
    ELSE LET r == Load(h, items[i])
         IN LoadItems(r.h, items, i + 1, Append(acc, r.v))
Load(h, tree) ==
    CASE Evaluated(h) ->
    IF tree.t = "obj"
    THEN LET r == LoadFields(h, tree.v, SortStrings(DOMAIN tree.v), <<>>)
             n == Alloc(r.h, r.v)
         IN [h |-> n.h, v |-> JMap(n.a)]
    ELSE IF tree.t = "arr"
    THEN LET r == LoadItems(h, tree.v, 1, <<>>)
         IN [h |-> r.h, v |-> JArr(r.v)]
    ELSE [h |-> h, v |-> tree]

RECURSIVE Deref(_, _)
Deref(h, val) ==
    IF val.t = "map"
    THEN IF val.v = Nil THEN val
         ELSE JObj([k \in DOMAIN h[val.v] |-> Deref(h, h[val.v][k])])
    ELSE IF val.t = "arr"
    THEN JArr([i \in 1..Len(val.v) |-> Deref(h, val.v[i])])
    ELSE val

-----------------------------------------------------------------------------
(* compatibility_helpers.go and the copy helpers of the cast                *)

K_properties == Chars("properties")
K_required == Chars("required")
K_additionalProperties == Chars("additionalProperties")
K_allOf == Chars("allOf")
K_type == Chars("type")
K_default == Chars("default")
K_const == Chars("const")
K_items == Chars("items")
K_enum == Chars("enum")
T_object == Chars("object")
T_array == Chars("array")
T_string == Chars("string")
T_number == Chars("number")
T_integer == Chars("integer")
T_boolean == Chars("boolean")
T_null == Chars("null")

\* getPropertiesMap: the properties map itself, or a fresh empty map
getPropertiesMap(h, schema) ==
    CASE Evaluated(h) ->
    LET m == Obj(h, schema) IN
        IF Has(m, K_properties) /\ m[K_properties].t = "map"
        THEN [h |-> h, a |-> m[K_properties].v]
        ELSE Alloc(h, <<>>)

\* getRequiredSet that finds no required property
getRequiredSetNone(m) == {}

\* getRequiredSet: the strings of the required list
getRequiredSet(m) ==
    IF Has(m, K_required) /\ m[K_required].t = "arr"
    THEN {m[K_required].v[i].v :
            i \in {j \in 1..Len(m[K_required].v) : m[K_required].v[j].t = "str"}}
    ELSE {}

getString(m, key) ==
    IF Has(m, key) /\ m[key].t = "str" THEN m[key].v ELSE <<>>

\* getMap: the address of the map under key, Nil when there is none
getMap(m, key) ==
    IF Has(m, key) /\ m[key].t = "map" THEN m[key].v ELSE Nil

\* getNumber: the number under key as a sequence of 0 or 1 numbers
getNumber(m, key) ==
    IF Has(m, key) /\ m[key].t = "num" THEN <<m[key].v>> ELSE <<>>

\* getStringSlice: the strings of the list under key, in order
getStringSlice(m, key) ==
    IF Has(m, key) /\ m[key].t = "arr"
    THEN LET strs == SelectSeq(m[key].v, LAMBDA x : x.t = "str")
         IN [i \in 1..Len(strs) |-> strs[i].v]
    ELSE <<>>

getKeys(m) == DOMAIN m
setDifference(a, b) == SortStrings(a \ b)
setIntersection(a, b) == SortStrings(a \cap b)
stringSliceToSet(slice) == Range(slice)

\* strings.Join(strs, ", ")
RECURSIVE joinStrings(_)
joinStrings(strs) ==
    IF strs = <<>> THEN <<>>
    ELSE IF Len(strs) = 1 THEN strs[1]
    ELSE strs[1] \o Chars(", ") \o joinStrings(Tail(strs))

\* floatToString of a whole number: "%.10f" with the trailing zeros and the
\* point trimmed
floatToString(f) == Itoa(f)

\* getAdditionalProperties: true unless the schema says a boolean
getAdditionalProperties(m) ==
    IF Has(m, K_additionalProperties) /\ m[K_additionalProperties].t = "bool"
    THEN m[K_additionalProperties].v
    ELSE TRUE

buildPath(base, prop) ==
    IF base = <<>> THEN prop
    ELSE IF HasPrefix(prop, <<"[">>) THEN base \o prop
    ELSE base \o <<".">> \o prop

\* copyMap that hands back the map it was given
copyMapShared(h, a) == [h |-> h, a |-> a]

\* copyMap and copyValue: a deep copy, new maps for maps and new slices for
\* slices
RECURSIVE copyMap(_, _)
RECURSIVE copyValue(_, _)
RECURSIVE copyFields(_, _, _, _)
RECURSIVE copyItems(_, _, _, _)
copyFields(h, src, keys, acc) ==
    CASE Evaluated(h) ->
    IF keys = {} THEN [h |-> h, v |-> acc]
    ELSE LET k == CHOOSE x \in keys : TRUE
             r == copyValue(h, src[k])
         IN copyFields(r.h, src, keys \ {k}, (k :> r.v) @@ acc)
copyItems(h, items, i, acc) ==
    CASE Evaluated(h) ->
    IF i > Len(items) THEN [h |-> h, v |-> acc]
    ELSE LET r == copyValue(h, items[i])
         IN copyItems(r.h, items, i + 1, Append(acc, r.v))
\* copyValue that makes the new slice and leaves it empty
copyValueNoItems(h, val) ==
    [h |-> h, v |-> IF val.t = "arr" THEN JArr(<<>>) ELSE val]
copyValue(h, val) ==
    CASE Evaluated(h) ->
    IF val.t = "map"
    THEN LET r == copyMap(h, val.v) IN [h |-> r.h, v |-> JMap(r.a)]
    ELSE IF val.t = "arr"
    THEN LET r == copyItems(h, val.v, 1, <<>>) IN [h |-> r.h, v |-> JArr(r.v)]
    ELSE [h |-> h, v |-> val]
copyMap(h, a) ==
    CASE Evaluated(h) ->
    IF a = Nil THEN [h |-> h, a |-> Nil]
    ELSE LET r == copyFields(h, h[a], DOMAIN h[a], <<>>)
         IN Alloc(r.h, r.v)

\* deduplicate: first occurrences, sorted
deduplicate(slice) == SortStrings(Range(slice))

-----------------------------------------------------------------------------
(* Compatibility engine                                                     *)

\* flattenSchema: a new schema map holding the properties, the required list
\* and additionalProperties of the schema and of its allOf parts; the property
\* schemas themselves are shared with the schema, not copied.
RECURSIVE flattenSchema(_, _)
RECURSIVE flattenAllOf(_, _, _)
\* the loop over the allOf parts: acc holds the heap and what is gathered
flattenAllOf(acc, parts, i) ==
    CASE Evaluated(acc) ->
    IF i > Len(parts) THEN acc
    ELSE IF parts[i].t # "map" THEN flattenAllOf(acc, parts, i + 1)
    ELSE LET f == flattenSchema(acc.h, parts[i].v)
             flattened == f.h[f.a]
         IN flattenAllOf(
              [h |-> f.h,
               props |-> f.h[flattened[K_properties].v] @@ acc.props,
               req |-> acc.req \o flattened[K_required].v,
               addl |-> IF Has(flattened, K_additionalProperties)
                        THEN <<flattened[K_additionalProperties]>>
                        ELSE acc.addl],
              parts, i + 1)
flattenSchema(h, schema) ==
    CASE Evaluated(h) ->
    LET m == Obj(h, schema)
        start == [h |-> h, props |-> <<>>, req |-> <<>>, addl |-> <<>>]
    IN Only({
         LET props == IF Has(m, K_properties) /\ m[K_properties].t = "map"
                      THEN Obj(merged.h, m[K_properties].v) @@ merged.props
                      ELSE merged.props
             req == IF Has(m, K_required) /\ m[K_required].t = "arr"
                    THEN merged.req \o m[K_required].v
                    ELSE merged.req
             addl == IF Has(m, K_additionalProperties)
                     THEN <<m[K_additionalProperties]>>
                     ELSE merged.addl
             p == Alloc(merged.h, props)
             fields == (K_properties :> JMap(p.a)) @@ (K_required :> JArr(req))
         IN Alloc(p.h, IF addl = <<>> THEN fields
                       ELSE (K_additionalProperties :> addl[1]) @@ fields)
         : merged \in {IF Has(m, K_allOf) /\ m[K_allOf].t = "arr"
                       THEN flattenAllOf(start, m[K_allOf].v, 1)
                       ELSE start} })

\* checkMinMaxConstraint: the messages for one pair of bounds
checkMinMaxConstraint(prop, oldSchema, newSchema, minKey, maxKey, checkTightening) ==
    LET oldMin == getNumber(oldSchema, minKey)
        newMin == getNumber(newSchema, minKey)
        oldMax == getNumber(oldSchema, maxKey)
        newMax == getNumber(newSchema, maxKey)
        head == Chars("Property '") \o prop \o Chars("' ")
        minErrs ==
            IF checkTightening
            THEN IF oldMin # <<>> /\ newMin # <<>> /\ newMin[1] > oldMin[1]
                 THEN <<head \o minKey \o Chars(" increased from ")
                        \o floatToString(oldMin[1]) \o Chars(" to ")
                        \o floatToString(newMin[1])>>
                 ELSE IF oldMin = <<>> /\ newMin # <<>>
                 THEN <<head \o Chars("added ") \o minKey
                        \o Chars(" constraint: ") \o floatToString(newMin[1])>>
                 ELSE <<>>
            ELSE IF oldMin # <<>> /\ newMin # <<>> /\ newMin[1] < oldMin[1]
                 THEN <<head \o minKey \o Chars(" decreased from ")
                        \o floatToString(oldMin[1]) \o Chars(" to ")
                        \o floatToString(newMin[1])>>
                 ELSE IF oldMin # <<>> /\ newMin = <<>>
                 THEN <<head \o Chars("removed ") \o minKey \o Chars(" constraint")>>
                 ELSE <<>>
        maxErrs ==
            IF checkTightening
            THEN IF oldMax # <<>> /\ newMax # <<>> /\ newMax[1] < oldMax[1]
                 THEN <<head \o maxKey \o Chars(" decreased from ")
                        \o floatToString(oldMax[1]) \o Chars(" to ")
                        \o floatToString(newMax[1])>>
                 ELSE IF oldMax = <<>> /\ newMax # <<>>
                 THEN <<head \o Chars("added ") \o maxKey
                        \o Chars(" constraint: ") \o floatToString(newMax[1])>>
                 ELSE <<>>
            ELSE IF oldMax # <<>> /\ newMax # <<>> /\ newMax[1] > oldMax[1]
                 THEN <<head \o maxKey \o Chars(" increased from ")
                        \o floatToString(oldMax[1]) \o Chars(" to ")
                        \o floatToString(newMax[1])>>
                 ELSE IF oldMax # <<>> /\ newMax = <<>>
                 THEN <<head \o Chars("removed ") \o maxKey \o Chars(" constraint")>>
                 ELSE <<>>
    IN minErrs \o maxErrs

\* checkConstraintCompatibility: the bound pair of the old declared type
checkConstraintCompatibility(prop, oldPropSchema, newPropSchema, checkTightening) ==
    LET propType == getString(oldPropSchema, K_type) IN
        (IF propType = T_number \/ propType = T_integer
         THEN checkMinMaxConstraint(prop, oldPropSchema, newPropSchema,
                  Chars("minimum"), Chars("maximum"), checkTightening)
         ELSE <<>>)
        \o (IF propType = T_string
            THEN checkMinMaxConstraint(prop, oldPropSchema, newPropSchema,
                     Chars("minLength"), Chars("maxLength"), checkTightening)
            ELSE <<>>)
        \o (IF propType = T_array
            THEN checkMinMaxConstraint(prop, oldPropSchema, newPropSchema,
                     Chars("minItems"), Chars("maxItems"), checkTightening)
            ELSE <<>>)

\* checkSchemaCompatibility: [panic, ok, errors].  The property schemas of a
\* common property are asserted to be maps; the assertion panics otherwise.
PanicResult == [panic |-> TRUE, ok |-> FALSE, errors |-> <<>>]
PrefixAll(prefix, errs) == [i \in 1..Len(errs) |-> prefix \o errs[i]]

\* the type check of a common property: the message when both schemas give
\* the property a type and the two differ
typeChanged(prop, oldType, newType) ==
    IF oldType # <<>> /\ newType # <<>> /\ oldType # newType
    THEN <<Chars("Property '") \o prop \o Chars("' type changed from ")
           \o oldType \o Chars(" to ") \o newType>>
    ELSE <<>>

RECURSIVE checkSchemaCompatibility(_, _, _, _)
RECURSIVE checkCommonProps(_, _, _, _, _, _)
\* the loop over the remaining commonProps, the errors so far in errs
checkCommonProps(h, oldProps, newProps, commonProps, checkBackward, errs) ==
    CASE Evaluated(errs) ->
    IF commonProps = <<>> THEN [panic |-> FALSE, ok |-> errs = <<>>, errors |-> errs]
    ELSE
    LET prop == Head(commonProps) IN
    IF oldProps[prop].t # "map" \/ newProps[prop].t # "map" THEN PanicResult
    ELSE
    LET oldPropSchema == Obj(h, oldProps[prop].v)
        newPropSchema == Obj(h, newProps[prop].v)
        oldType == getString(oldPropSchema, K_type)
        newType == getString(newPropSchema, K_type)
        quoted == Chars("Property '") \o prop \o Chars("'")
        typeErrs == typeChanged(prop, oldType, newType)
        oldEnum == getStringSlice(oldPropSchema, K_enum)
        newEnum == getStringSlice(newPropSchema, K_enum)
        addedEnumValues ==
            setDifference(stringSliceToSet(newEnum), stringSliceToSet(oldEnum))
        removedEnumValues ==
            setDifference(stringSliceToSet(oldEnum), stringSliceToSet(newEnum))
        enumErrs ==
            IF Len(oldEnum) > 0 /\ Len(newEnum) > 0
            THEN IF checkBackward
                 THEN IF Len(addedEnumValues) > 0
                      THEN <<quoted \o Chars(" added enum values: ")
                             \o joinStrings(addedEnumValues)>>
                      ELSE <<>>
                 ELSE IF Len(removedEnumValues) > 0
                      THEN <<quoted \o Chars(" removed enum values: ")
                             \o joinStrings(removedEnumValues)>>
                      ELSE <<>>
            ELSE <<>>
        constraintErrors ==
            checkConstraintCompatibility(prop, oldPropSchema, newPropSchema,
                                         checkBackward)
        nested ==
            IF oldType = T_object /\ newType = T_object
            THEN checkSchemaCompatibility(h, oldProps[prop].v, newProps[prop].v,
                                          checkBackward)
            ELSE [panic |-> FALSE, ok |-> TRUE, errors |-> <<>>]
        oldItems == getMap(oldPropSchema, K_items)
        newItems == getMap(newPropSchema, K_items)
        items ==
            IF oldType = T_array /\ newType = T_array
               /\ oldItems # Nil /\ newItems # Nil
            THEN checkSchemaCompatibility(h, oldItems, newItems, checkBackward)
            ELSE [panic |-> FALSE, ok |-> TRUE, errors |-> <<>>]
    IN IF nested.panic THEN PanicResult
       ELSE IF items.panic THEN PanicResult
       ELSE checkCommonProps(h, oldProps, newProps, Tail(commonProps),
                checkBackward,
                errs \o typeErrs \o enumErrs \o constraintErrors
                \o PrefixAll(quoted \o Chars(": "), nested.errors)
                \o PrefixAll(quoted \o Chars(" array items: "), items.errors))

checkSchemaCompatibility(h, oldSchema, newSchema, checkBackward) ==
    CASE Evaluated(h) ->
    Only({ Only({
      LET oldP == getPropertiesMap(newFlat.h, oldFlat.a)
          newP == getPropertiesMap(oldP.h, newFlat.a)
          h2 == newP.h
          oldProps == Obj(h2, oldP.a)
          newProps == Obj(h2, newP.a)
          oldRequired == getRequiredSet(Obj(h2, oldFlat.a))
          newRequired == getRequiredSet(Obj(h2, newFlat.a))
          newlyRequired == setDifference(newRequired, oldRequired)
          removedRequired == setDifference(oldRequired, newRequired)
          requiredErrs ==
              IF checkBackward
              THEN IF Len(newlyRequired) > 0
                   THEN <<Chars("Added required properties: ")
                          \o joinStrings(newlyRequired)>>
                   ELSE <<>>
              ELSE IF Len(removedRequired) > 0
                   THEN <<Chars("Removed required properties: ")
                          \o joinStrings(removedRequired)>>
                   ELSE <<>>
          commonProps == setIntersection(getKeys(oldProps), getKeys(newProps))
      IN checkCommonProps(h2, oldProps, newProps, commonProps, checkBackward,
                          requiredErrs)
      : newFlat \in {flattenSchema(oldFlat.h, newSchema)} })
      : oldFlat \in {flattenSchema(h, oldSchema)} })

checkBackwardCompatibility(h, oldSchema, newSchema) ==
    checkSchemaCompatibility(h, oldSchema, newSchema, TRUE)
checkForwardCompatibility(h, oldSchema, newSchema) ==
    checkSchemaCompatibility(h, oldSchema, newSchema, FALSE)

\* inferDirection: from the minor versions of the last segments
inferDirection(fromID, toID) ==
    Only({
      IF fromGtsID.err # "" \/ toGtsID.err # "" THEN "unknown"
      ELSE IF Len(fromGtsID.Segments) = 0 \/ Len(toGtsID.Segments) = 0
      THEN "unknown"
      ELSE LET fromSeg == fromGtsID.Segments[Len(fromGtsID.Segments)]
               toSeg == toGtsID.Segments[Len(toGtsID.Segments)]
           IN IF fromSeg.VerMinor # NoMinor /\ toSeg.VerMinor # NoMinor
              THEN IF IntLess(fromSeg.VerMinor, toSeg.VerMinor) THEN "up"
                   ELSE IF IntLess(toSeg.VerMinor, fromSeg.VerMinor) THEN "down"
                   ELSE "none"
              ELSE "unknown"
      : fromGtsID \in {NewGtsID(fromID)}, toGtsID \in {NewGtsID(toID)} })

-----------------------------------------------------------------------------
(* Cast engine                                                              *)

\* effectiveObjectSchema: the schema itself when it has properties or
\* required, else the first allOf part that has, else the schema
RECURSIVE firstObjectPart(_, _, _)
firstObjectPart(h, parts, i) ==
    CASE Evaluated(h) ->
    IF i > Len(parts) THEN Nil
    ELSE IF parts[i].t = "map"
            /\ (Has(Obj(h, parts[i].v), K_properties)
                \/ Has(Obj(h, parts[i].v), K_required))
    THEN parts[i].v
    ELSE firstObjectPart(h, parts, i + 1)
effectiveObjectSchema(h, schema) ==
    CASE Evaluated(h) ->
    LET m == Obj(h, schema)
        part == IF Has(m, K_allOf) /\ m[K_allOf].t = "arr"
                THEN firstObjectPart(h, m[K_allOf].v, 1)
                ELSE Nil
    IN IF schema = Nil THEN Alloc(h, <<>>)
       ELSE IF Has(m, K_properties) \/ Has(m, K_required) THEN [h |-> h, a |-> schema]
       ELSE IF part # Nil THEN [h |-> h, a |-> part]
       ELSE [h |-> h, a |-> schema]

MissingRequired(path) ==
    Chars("Missing required property '") \o path
    \o Chars("' and no default is defined")

\* The loops of castInstanceToSchema.  st carries the heap and the three lists;
\* result is the address of the map being built, targetProps that of the
\* target properties.
RECURSIVE castRequired(_, _, _, _, _)
castRequired(st, result, targetProps, reqProps, basePath) ==
    CASE Evaluated(st) ->
    IF reqProps = <<>> THEN st
    ELSE
    LET reqProp == Head(reqProps)
        propSchema == getMap(Obj(st.h, targetProps), reqProp)
        path == buildPath(basePath, reqProp)
    IN castRequired(
         IF Has(Obj(st.h, result), reqProp) \/ propSchema = Nil THEN st
         ELSE IF Has(Obj(st.h, propSchema), K_default)
         THEN Only({ [st EXCEPT !.h = Store(c.h, result, reqProp, c.v),
                                !.added = Append(@, path)]
                     : c \in {copyValue(st.h, Obj(st.h, propSchema)[K_default])} })
         ELSE [st EXCEPT !.reasons = Append(@, MissingRequired(path))],
         result, targetProps, Tail(reqProps), basePath)

RECURSIVE castOptional(_, _, _, _, _, _)
castOptional(st, result, targetProps, props, required, basePath) ==
    CASE Evaluated(st) ->
    IF props = <<>> THEN st
    ELSE
    LET prop == Head(props)
        propSchema == getMap(Obj(st.h, targetProps), prop)
    IN castOptional(
         IF prop \in required \/ propSchema = Nil THEN st
         ELSE IF ~Has(Obj(st.h, result), prop)
                 /\ Has(Obj(st.h, propSchema), K_default)
         THEN Only({ [st EXCEPT !.h = Store(c.h, result, prop, c.v),
                                !.added = Append(@, buildPath(basePath, prop))]
                     : c \in {copyValue(st.h, Obj(st.h, propSchema)[K_default])} })
         ELSE st,
         result, targetProps, Tail(props), required, basePath)

RECURSIVE castConst(_, _, _, _)
castConst(st, result, targetProps, props) ==
    CASE Evaluated(st) ->
    IF props = <<>> THEN st
    ELSE
    LET prop == Head(props)
        propSchema == Obj(st.h, getMap(Obj(st.h, targetProps), prop))
        res == Obj(st.h, result)
    IN castConst(
         IF Has(propSchema, K_const) /\ Has(res, prop)
            /\ propSchema[K_const].t = "str" /\ res[prop].t = "str"
            /\ IsValidGtsID(propSchema[K_const].v)
            /\ IsValidGtsID(res[prop].v)
            /\ res[prop].v # propSchema[K_const].v
         THEN [st EXCEPT !.h = Store(st.h, result, prop, propSchema[K_const])]
         ELSE st,
         result, targetProps, Tail(props))

RECURSIVE castRemove(_, _, _, _, _)
castRemove(st, result, targetProps, props, basePath) ==
    CASE Evaluated(st) ->
    IF props = <<>> THEN st
    ELSE
    LET prop == Head(props)
        next ==
            IF ~Has(Obj(st.h, targetProps), prop)
            THEN [st EXCEPT !.h = Delete(st.h, result, prop),
                            !.removed = Append(@, buildPath(basePath, prop))]
            ELSE st
    IN castRemove(next, result, targetProps, Tail(props), basePath)

RECURSIVE castInstanceToSchema(_, _, _, _)
RECURSIVE castItems(_, _, _, _, _, _, _)
RECURSIVE castNested(_, _, _, _, _)

\* the loop over the items of an array property: maps are cast against the
\* item schema, other items are kept
castItems(st, valArray, idx, nestedSchema, basePath, prop, newList) ==
    CASE Evaluated(st) ->
    IF idx > Len(valArray) THEN {[st |-> st, newList |-> newList]}
    ELSE
    LET item == valArray[idx] IN
    IF item.t = "map"
    THEN UNION {
           castItems([h |-> sub.h,
                      added |-> st.added \o sub.added,
                      removed |-> st.removed \o sub.removed,
                      reasons |-> st.reasons \o sub.reasons],
                     valArray, idx + 1, nestedSchema, basePath, prop,
                     Append(newList, JMap(sub.a)))
           : sub \in castInstanceToSchema(st.h, item.v, nestedSchema,
                        buildPath(basePath,
                                  prop \o <<"[">> \o Itoa(idx - 1) \o <<"]">>)) }
    ELSE castItems(st, valArray, idx + 1, nestedSchema, basePath, prop,
                   Append(newList, item))

\* step 4: the loop over the target properties that recurses into nested
\* objects and arrays of objects, the properties visited in the order props
castNested(st, result, targetProps, props, basePath) ==
    CASE Evaluated(st) ->
    IF props = <<>> THEN {st}
    ELSE
    LET prop == Head(props)
        res == Obj(st.h, result)
        val == res[prop]
        schemaAddr == getMap(Obj(st.h, targetProps), prop)
        propSchema == Obj(st.h, schemaAddr)
        propType == getString(propSchema, K_type)
        itemsSchema == getMap(propSchema, K_items)
    IN UNION {
         castNested(next, result, targetProps, Tail(props), basePath)
         : next \in
             IF ~Has(res, prop) \/ schemaAddr = Nil THEN {st}
             ELSE IF propType = T_object /\ val.t = "map"
             THEN UNION {
                    { [h |-> Store(sub.h, result, prop, JMap(sub.a)),
                       added |-> st.added \o sub.added,
                       removed |-> st.removed \o sub.removed,
                       reasons |-> st.reasons \o sub.reasons]
                      : sub \in castInstanceToSchema(objSchema.h, val.v,
                                   objSchema.a, buildPath(basePath, prop)) }
                    : objSchema \in {effectiveObjectSchema(st.h, schemaAddr)} }
             ELSE IF propType = T_array /\ val.t = "arr" /\ itemsSchema # Nil
                     /\ getString(Obj(st.h, itemsSchema), K_type) = T_object
             THEN UNION {
                    { [list.st EXCEPT
                         !.h = Store(list.st.h, result, prop, JArr(list.newList))]
                      : list \in castItems([st EXCEPT !.h = itemSchema.h],
                                           val.v, 1, itemSchema.a, basePath,
                                           prop, <<>>) }
                    : itemSchema \in {effectiveObjectSchema(st.h, itemsSchema)} }
             ELSE {st} }

\* castInstanceToSchema: the outcomes [h, a, added, removed, reasons] of the
\* call, a the address of the transformed copy (Nil when the instance is
\* nil).  Each of the five loops over a map has an order of its own.
castInstanceToSchema(h, instance, schema, basePath) ==
    CASE Evaluated(h) ->
    IF instance = Nil
    THEN {[h |-> h, a |-> Nil, added |-> <<>>, removed |-> <<>>,
           reasons |-> <<Chars("Instance must be an object for casting")>>]}
    ELSE
    LET tp == getPropertiesMap(h, schema)
        targetProps == tp.a
        required == getRequiredSet(Obj(h, schema))
        additional == getAdditionalProperties(Obj(h, schema))
    IN UNION {
         LET propKeys == DOMAIN Obj(copy.h, targetProps) IN
         { [h |-> s5.h, a |-> copy.a, added |-> s5.added, removed |-> s5.removed,
            reasons |-> s5.reasons]
           \* step 4: nested objects and arrays of objects
           : s5 \in UNION {
               castNested(s4, copy.a, targetProps, nestedOrder, basePath)
               : nestedOrder \in Orders(propKeys),
                 \* step 3: what the target does not declare is removed
                 s4 \in UNION {
                   IF additional THEN {s3}
                   ELSE { castRemove(s3, copy.a, targetProps, resultOrder,
                                     basePath)
                          : resultOrder \in Orders(DOMAIN Obj(s3.h, copy.a)) }
                   \* step 2.5: consts that are GTS identifiers
                   : s3 \in {
                       castConst(s2, copy.a, targetProps, constOrder)
                       : constOrder \in Orders(propKeys),
                         \* step 2: defaults of optional properties
                         s2 \in {
                           castOptional(s1, copy.a, targetProps, optionalOrder,
                                        required, basePath)
                           : optionalOrder \in Orders(propKeys),
                             \* step 1: required properties
                             s1 \in {
                               castRequired([h |-> copy.h, added |-> <<>>,
                                             removed |-> <<>>, reasons |-> <<>>],
                                            copy.a, targetProps, requiredOrder,
                                            basePath)
                               : requiredOrder \in Orders(required) } } } } } }
         : copy \in {copyMap(tp.h, instance)} }

\* removeGtsConstConstraints: the copies of the schema the call can return, in
\* which a const that is a GTS identifier is replaced by type string.  The
\* keys are visited in map order, so a type next to such a const keeps its
\* value or becomes string.  values[key] holds what the call on the value
\* under key can return, which does not depend on the order of the loop.
RECURSIVE removeGtsConstConstraints(_)
RECURSIVE removeConstFields(_, _, _, _)
RECURSIVE removeConstItems(_)
removeConstFields(fields, keys, values, acc) ==
    IF keys = <<>> THEN {acc}
    ELSE IF Head(keys) = K_const /\ fields[Head(keys)].t = "str"
            /\ IsValidGtsID(fields[Head(keys)].v)
    THEN removeConstFields(fields, Tail(keys), values,
                           (K_type :> JStr(T_string)) @@ acc)
    ELSE UNION { removeConstFields(fields, Tail(keys), values,
                                   (Head(keys) :> value) @@ acc)
                 : value \in values[Head(keys)] }
removeConstItems(items) ==
    IF items = <<>> THEN {<<>>}
    ELSE { <<first>> \o rest : first \in removeGtsConstConstraints(Head(items)),
                               rest \in removeConstItems(Tail(items)) }
removeGtsConstConstraints(schema) ==
    IF schema.t = "obj"
    THEN UNION {
           IF Evaluated(values)
           THEN { JObj(fields)
                  : fields \in UNION { removeConstFields(schema.v, order, values,
                                                         <<>>)
                                       : order \in Orders(DOMAIN schema.v) } }
           ELSE {}
           : values \in {[key \in DOMAIN schema.v |->
                            removeGtsConstConstraints(schema.v[key])]} }
    ELSE IF schema.t = "map"
    \* a nil map: the loop runs over no key and the new, empty map is returned
    THEN {JObj(<<>>)}
    ELSE IF schema.t = "arr"
    THEN {JArr(items) : items \in removeConstItems(schema.v)}
    ELSE {schema}

\* The validator the cast calls (jsonschema Compile and Validate), for the
\* keywords $ref, type, const, enum, properties, required, additionalProperties,
\* items, allOf and the bounds; other keywords are annotations.  Schemas and
\* values are document trees.
TypeNames == {T_object, T_array, T_string, T_number, T_integer, T_boolean, T_null}
K_ref == Chars("$ref")

\* strings.Contains
Contains(s, substr) ==
    \E i \in 1..(Len(s) - Len(substr) + 1) :
        SubSeq(s, i, i + Len(substr) - 1) = substr

\* A compiler knows its schemas by URL.  AddResource(name, doc) puts doc under
\* the file URL of name in the working directory, held here as name itself; a
\* $id of the document is resolved against that URL and is the base of the
\* references in it.
HasScheme(u) == Contains(u, Chars("://"))
\* base without its last path segment
DirOf(base) ==
    LET from == IF HasScheme(base)
                THEN Min({i \in 1..Len(base) : SubSeq(base, i, i + 2) = Chars("://")}) + 3
                ELSE 1
        slashes == {i \in from..Len(base) : base[i] = "/"}
    IN  IF slashes # {} THEN SubSeq(base, 1, Max(slashes))
        ELSE IF HasScheme(base) THEN base \o <<"/">>
        ELSE <<>>
JoinURL(base, ref) ==
    IF ref = <<>> THEN base
    ELSE IF HasScheme(ref) THEN ref
    ELSE DirOf(base) \o ref

\* the resource a document is under name: the URLs that name it, the base
\* of its references and the document
Resource(name, doc) ==
    Only({ [names |-> {name, base}, base |-> base, doc |-> doc]
           : base \in {IF doc.t = "obj" /\ Has(doc.v, Chars("$id"))
                          /\ doc.v[Chars("$id")].t = "str"
                       THEN JoinURL(name, doc.v[Chars("$id")].v)
                       ELSE name} })

\* the drafts in which the keywords next to a $ref are ignored
OldDraftURLs ==
    { scheme \o Chars("json-schema.org/draft-0") \o n \o Chars("/schema") \o hash
      : scheme \in {Chars("http://"), Chars("https://")},
        n \in {<<"4">>, <<"6">>, <<"7">>}, hash \in {<<>>, <<"#">>} }
OldDraft(doc) ==
    /\ doc.t = "obj" /\ Has(doc.v, Chars("$schema"))
    /\ doc.v[Chars("$schema")].t = "str"
    /\ doc.v[Chars("$schema")].v \in OldDraftURLs
RefOnly(res, s) == Has(s.v, K_ref) /\ OldDraft(res.doc)

\* the part of doc a JSON pointer leads to, <<>> when there is none
RECURSIVE AtPointer(_, _)
AtPointer(doc, tokens) ==
    IF tokens = <<>> THEN <<doc>>
    ELSE IF doc.t = "obj" /\ Has(doc.v, Head(tokens))
    THEN AtPointer(doc.v[Head(tokens)], Tail(tokens))
    ELSE IF doc.t = "arr" /\ Head(tokens) # <<>>
            /\ (\A i \in 1..Len(Head(tokens)) : Head(tokens)[i] \in Digit)
            /\ \E i \in 1..Len(doc.v) : ItoaNat(i - 1) = Head(tokens)
    THEN AtPointer(doc.v[CHOOSE i \in 1..Len(doc.v) : ItoaNat(i - 1) = Head(tokens)],
                   Tail(tokens))
    ELSE <<>>

\* jsonschema.NewCompiler: a compiler that holds no document.  A compiler is
\* a record [heap, docs]: the documents it was given, by URL, and the heap
\* through which it reads those that are maps of the program.
NewCompiler(h) == [heap |-> h, docs |-> <<>>]

\* Compiler.AddResource: the compiler keeps the document it is given under
\* url, the first one when it is given two.  It keeps the value it is handed:
\* for a map of the program that is the address of the map, not a copy, so the
\* compiler and the program share the map.
AddResource(c, url, doc) ==
    IF url \in DOMAIN c.docs THEN c
    ELSE [c EXCEPT !.docs = (url :> doc) @@ c.docs]

\* the loop of validateWithGtsIDTolerance over store.byID: the content map of
\* every schema of the store is added under its key.  The keys differ, so the
\* order of the loop does not show in the compiler it leaves.
RECURSIVE AddSchemas(_, _, _)
AddSchemas(c, byid, ids) ==
    IF ids = {} THEN c
    ELSE Only({ AddSchemas(IF byid[id].IsSchema
                           THEN AddResource(c, id, JMap(byid[id].Content))
                           ELSE c,
                           byid, ids \ {id})
                : id \in {CHOOSE x \in ids : TRUE} })

\* the schema a $ref of a schema of the resource res names, with its
\* resource, <<>> when it names none: the URL is that of res itself or of a
\* document of the compiler c (the loader of the store is asked for the file
\* URL, which is no identifier, and refuses), the fragment is empty or a JSON
\* pointer.  The document is read through the heap when the reference is
\* followed.
RefTarget(c, res, ref) ==
    Only({
      LET url == JoinURL(res.base, parts[1])
          frag == IF Len(parts) > 1 THEN parts[2] ELSE <<>>
          target == IF url \in res.names THEN <<res>>
                    ELSE IF url \in DOMAIN c.docs
                    THEN <<Resource(url, Deref(c.heap, c.docs[url]))>>
                    ELSE <<>>
          at == IF target = <<>> THEN <<>>
                ELSE IF frag = <<>> THEN <<target[1].doc>>
                ELSE IF Head(frag) = "/"
                THEN AtPointer(target[1].doc, Split(Tail(frag), "/"))
                ELSE <<>>
      IN  IF at = <<>> THEN <<>> ELSE <<[res |-> target[1], s |-> at[1]]>>
      : parts \in {SplitN2(ref, "#")} })

\* Compile of the schema s of the resource res by the compiler c; refs are
\* the references that are being compiled.  Compile and Validate read the
\* documents of the compiler and write to none of them: each is a verdict on
\* the compiler, the schema and the value as they are.
RECURSIVE Compiles(_, _, _, _)
Compiles(c, res, s, refs) ==
    \/ s.t = "bool"
    \/ /\ s.t = "obj"
       /\ Has(s.v, K_ref) =>
            /\ s.v[K_ref].t = "str"
            /\ \/ <<res.base, s.v[K_ref].v>> \in refs
               \/ \E t \in {RefTarget(c, res, s.v[K_ref].v)} :
                     /\ t # <<>>
                     /\ Compiles(c, t[1].res, t[1].s,
                                 refs \cup {<<res.base, s.v[K_ref].v>>})
       /\ \/ RefOnly(res, s)
          \/ /\ Has(s.v, K_type) =>
                  \/ s.v[K_type].t = "str" /\ s.v[K_type].v \in TypeNames
                  \/ /\ s.v[K_type].t = "arr"
                     /\ Len(s.v[K_type].v) > 0
                     /\ \A i \in 1..Len(s.v[K_type].v) :
                           /\ s.v[K_type].v[i].t = "str"
                           /\ s.v[K_type].v[i].v \in TypeNames
                     /\ \A i, j \in 1..Len(s.v[K_type].v) :
                           s.v[K_type].v[i] = s.v[K_type].v[j] => i = j
             /\ Has(s.v, K_properties) =>
                  /\ s.v[K_properties].t = "obj"
                  /\ \A k \in DOMAIN s.v[K_properties].v :
                        Compiles(c, res, s.v[K_properties].v[k], refs)
             /\ Has(s.v, K_required) =>
                  /\ s.v[K_required].t = "arr"
                  /\ \A i \in 1..Len(s.v[K_required].v) :
                        s.v[K_required].v[i].t = "str"
             /\ Has(s.v, K_additionalProperties) =>
                  Compiles(c, res, s.v[K_additionalProperties], refs)
             /\ Has(s.v, K_items) => Compiles(c, res, s.v[K_items], refs)
             /\ Has(s.v, K_enum) => s.v[K_enum].t = "arr"
             /\ Has(s.v, K_allOf) =>
                  /\ s.v[K_allOf].t = "arr"
                  /\ Len(s.v[K_allOf].v) > 0
                  /\ \A i \in 1..Len(s.v[K_allOf].v) :
                        Compiles(c, res, s.v[K_allOf].v[i], refs)

HasType(val, name) ==
    \/ name = T_object /\ val.t = "obj"
    \/ name = T_array /\ val.t = "arr"
    \/ name = T_string /\ val.t = "str"
    \/ name \in {T_number, T_integer} /\ val.t = "num"
    \/ name = T_boolean /\ val.t = "bool"
    \/ name = T_null /\ val.t = "null"

\* the type keyword: a type name, or a list of names of which one has to fit
TypeFits(val, type) ==
    IF type.t = "arr"
    THEN \E i \in 1..Len(type.v) : HasType(val, type.v[i].v)
    ELSE HasType(val, type.v)

\* a bound keyword holds when it is absent, not a number, or met
BoundOK(s, key, n, atLeast) ==
    (Has(s, key) /\ s[key].t = "num") =>
        (IF atLeast THEN n >= s[key].v ELSE n <= s[key].v)

\* Validate of val against the compiled schema s of the resource res; refs
\* are the references followed to reach s for this same val (a reference that
\* leads back to itself is an error)
RECURSIVE Validates(_, _, _, _, _)
Validates(c, res, s, val, refs) ==
    IF s.t = "bool" THEN s.v
    ELSE
    LET k == s.v
        props == IF Has(k, K_properties) THEN k[K_properties].v ELSE <<>>
    IN /\ Has(k, K_ref) =>
            /\ <<res.base, k[K_ref].v>> \notin refs
            /\ \E t \in {RefTarget(c, res, k[K_ref].v)} :
                  Validates(c, t[1].res, t[1].s, val,
                            refs \cup {<<res.base, k[K_ref].v>>})
       /\ \/ RefOnly(res, s)
          \/ /\ Has(k, K_type) => TypeFits(val, k[K_type])
             /\ Has(k, K_const) => val = k[K_const]
             /\ Has(k, K_enum) => \E i \in 1..Len(k[K_enum].v) : val = k[K_enum].v[i]
             /\ Has(k, K_allOf) =>
                  \A i \in 1..Len(k[K_allOf].v) :
                      Validates(c, res, k[K_allOf].v[i], val, refs)
             /\ val.t = "obj" =>
                  /\ \A p \in DOMAIN props \cap DOMAIN val.v :
                        Validates(c, res, props[p], val.v[p], {})
                  /\ Has(k, K_required) =>
                        \A i \in 1..Len(k[K_required].v) :
                            k[K_required].v[i].v \in DOMAIN val.v
                  /\ Has(k, K_additionalProperties) =>
                        \A p \in DOMAIN val.v \ DOMAIN props :
                            Validates(c, res, k[K_additionalProperties],
                                      val.v[p], {})
             /\ val.t = "arr" =>
                  /\ Has(k, K_items) =>
                        \A i \in 1..Len(val.v) :
                            Validates(c, res, k[K_items], val.v[i], {})
                  /\ BoundOK(k, Chars("minItems"), Len(val.v), TRUE)
                  /\ BoundOK(k, Chars("maxItems"), Len(val.v), FALSE)
             /\ val.t = "str" =>
                  /\ BoundOK(k, Chars("minLength"), Len(val.v), TRUE)
                  /\ BoundOK(k, Chars("maxLength"), Len(val.v), FALSE)
             /\ val.t = "num" =>
                  /\ BoundOK(k, Chars("minimum"), val.v, TRUE)
                  /\ BoundOK(k, Chars("maximum"), val.v, FALSE)

\* validateWithGtsIDTolerance: the error texts the call can return, the empty
\* text when the instance is
\* valid against the schema without its GTS identifier consts.  The compiler
\* is given the content maps of the schemas of the registry reg under their
\* keys, the maps themselves and no copies, and then the modified schema
\* under the name _cast_validation; that name is compiled.
CastValidationName == Chars("_cast_validation")
validateWithGtsIDTolerance(reg, instance, schema) ==
    { Only({
        Only({
          IF ~Compiles(compiler, res, res.doc, {})
          THEN Chars("failed to compile schema")
          ELSE IF ~Validates(compiler, res, res.doc, instance, {})
          THEN Chars("validation failed")
          ELSE <<>>
          : res \in {Resource(CastValidationName,
                              Deref(compiler.heap,
                                    compiler.docs[CastValidationName]))} })
        : compiler \in {AddResource(
                           AddSchemas(NewCompiler(reg.heap), reg.byID,
                                      DOMAIN reg.byID),
                           CastValidationName, modifiedSchema)} })
      : modifiedSchema \in removeGtsConstConstraints(schema) }

-----------------------------------------------------------------------------
(* Entities and the registry                                                *)

GtsURIPrefix == Chars("gts://")
EntityIDFields ==
    <<Chars("$id"), Chars("gtsId"), Chars("gtsIid"), Chars("gtsOid"),
      Chars("gtsI"), Chars("gts_id"), Chars("gts_oid"), Chars("gts_iid"),
      Chars("id")>>
SchemaIDFields ==
    <<Chars("gtsTid"), Chars("gtsType"), Chars("gtsT"), Chars("gts_t"),
      Chars("gts_tid"), Chars("gts_type"), Chars("type"), Chars("schema")>>

\* isJSONSchema: a document is a schema exactly when it has a $schema (or
\* $$schema) field
isJSONSchema(content) ==
    Has(content, Chars("$schema")) \/ Has(content, Chars("$$schema"))

\* getFieldValue: the trimmed string under field, gts:// stripped for $id
getFieldValue(content, field) ==
    IF ~Has(content, field) \/ content[field].t # "str" THEN <<>>
    ELSE IF field = Chars("$id")
    THEN TrimPrefix(TrimSpace(content[field].v), GtsURIPrefix)
    ELSE TrimSpace(content[field].v)

\* firstNonEmptyField: the first field holding a valid GTS identifier, else
\* the first holding any non-empty string
firstNonEmptyField(content, fields) ==
    Only({
      LET valid == {i \in 1..Len(fields) :
                      values[i] # <<>> /\ IsValidGtsID(values[i])}
          any == {i \in 1..Len(fields) : values[i] # <<>>}
      IN IF any = {} THEN [field |-> <<>>, value |-> <<>>]
         ELSE Only({ [field |-> fields[i], value |-> values[i]]
                     : i \in {IF valid # {} THEN Min(valid) ELSE Min(any)} })
      : values \in {[i \in 1..Len(fields) |-> getFieldValue(content, fields[i])]} })

calcJSONEntityID(content) == firstNonEmptyField(content, EntityIDFields).value

\* positions of ~ in a text
Tildes(s) == {i \in 1..Len(s) : s[i] = "~"}

\* calcJSONSchemaID: for a schema the parent type of a derived type id, else
\* the $schema value; for an instance the type prefix of its chained id, else
\* the first schema id field
calcJSONSchemaID(content, isSchema, entityIDValue) ==
    LET tildes == Tildes(entityIDValue) IN
    Only({
      IF isSchema
      THEN IF valid /\ HasSuffix(entityIDValue, <<"~">>)
              /\ Min(tildes) > 1
              /\ \E j \in tildes : j > Min(tildes) + 1
           THEN SubSeq(entityIDValue, 1, Min(tildes))
           ELSE getFieldValue(content, Chars("$schema"))
      ELSE IF valid /\ ~HasSuffix(entityIDValue, <<"~">>)
              /\ tildes # {} /\ Max(tildes) > 1
           THEN SubSeq(entityIDValue, 1, Max(tildes))
           ELSE firstNonEmptyField(content, SchemaIDFields).value
      : valid \in {entityIDValue # <<>> /\ IsValidGtsID(entityIDValue)} })

\* NewJsonEntity, of a content tree: the identifier as a sequence of 0 or 1
\* texts (nil GtsID or GtsID.ID), the IsSchema flag and the schema id
NewJsonEntity(content) ==
    Only({
      [GtsID |-> IF entityIDValue # <<>> /\ IsValidGtsID(entityIDValue)
                 THEN <<NewGtsID(entityIDValue).ID>>
                 ELSE <<>>,
       IsSchema |-> isJSONSchema(content),
       SchemaID |-> calcJSONSchemaID(content, isJSONSchema(content), entityIDValue),
       Content |-> JObj(content)]
      : entityIDValue \in {calcJSONEntityID(content)} })

\* Register, with reference validation off: the entity, its content written to
\* the heap, is stored under its identifier; an entity without one is refused
Register(reg, entity) ==
    CASE Evaluated(reg) ->
    IF entity.GtsID = <<>> \/ entity.GtsID[1] = <<>> THEN reg
    ELSE Only({
           [heap |-> l.h,
            byID |-> (entity.GtsID[1] :>
                         [GtsID |-> entity.GtsID[1],
                          Content |-> l.v.v,
                          IsSchema |-> entity.IsSchema,
                          SchemaID |-> entity.SchemaID])
                     @@ reg.byID]
           : l \in {Load(reg.heap, entity.Content)} })

RECURSIVE RegisterAll(_, _)
RegisterAll(reg, contents) ==
    CASE Evaluated(reg) ->
    IF contents = <<>> THEN reg
    ELSE RegisterAll(Register(reg, NewJsonEntity(Head(contents))), Tail(contents))

-----------------------------------------------------------------------------
(* Cast and CheckCompatibility                                              *)

NoError == [kind |-> "nil", id |-> <<>>]
StoreGtsObjectNotFoundError(id) ==
    [kind |-> "StoreGtsObjectNotFoundError", id |-> id]
StoreGtsSchemaNotFoundError(id) ==
    [kind |-> "StoreGtsSchemaNotFoundError", id |-> id]
StoreGtsCastFromSchemaNotAllowedError(id) ==
    [kind |-> "StoreGtsCastFromSchemaNotAllowedError", id |-> id]
StoreGtsSchemaForInstanceNotFoundError(id) ==
    [kind |-> "StoreGtsSchemaForInstanceNotFoundError", id |-> id]

\* what a call leaves behind: the heap, whether it panicked, the error and
\* the result (a sequence of 0 or 1 results)
Outcome(h, panic, err, res) ==
    [h |-> h, panic |-> panic, err |-> err, res |-> res]

\* castInstance that takes the source schema as the old one under every
\* direction
castInstanceNoSwap(h, fromInstanceID, toSchemaID, fromInstanceContent, fromSchemaContent, toSchemaContent) ==
    CASE Evaluated(h) ->
    UNION {
      LET oldSchema == fromSchemaContent
          newSchema == toSchemaContent
      IN UNION {
           IF back.panic \/ fwd.panic
           THEN {Outcome(targetSchema.h, TRUE, NoError, <<>>)}
           ELSE UNION { {
                  Outcome(c.h, FALSE, NoError,
                    <<[FromID |-> fromInstanceID,
                       ToID |-> toSchemaID,
                       OldID |-> fromInstanceID,
                       NewID |-> toSchemaID,
                       Direction |-> direction,
                       AddedProperties |-> deduplicate(c.added),
                       RemovedProperties |-> deduplicate(c.removed),
                       ChangedProperties |-> <<>>,
                       IsFullyCompatible |-> c.a # Nil /\ err = <<>>,
                       IsBackwardCompatible |-> back.ok,
                       IsForwardCompatible |-> fwd.ok,
                       IncompatibilityReasons |->
                           IF err = <<>> THEN c.reasons
                           ELSE Append(c.reasons, err),
                       BackwardErrors |-> back.errors,
                       ForwardErrors |-> fwd.errors,
                       CastedEntity |-> c.a]>>)
                  : err \in IF c.a = Nil THEN {<<>>}
                            ELSE validateWithGtsIDTolerance(
                                   [heap |-> c.h, byID |-> byID],
                                   Deref(c.h, JMap(c.a)),
                                   Deref(c.h, JMap(toSchemaContent))) }
                  : c \in UNION {castInstanceToSchema(copy.h, copy.a,
                                                     targetSchema.a, <<>>)
                                 : copy \in {copyMap(targetSchema.h,
                                                     fromInstanceContent)}} }
           : back \in {checkBackwardCompatibility(targetSchema.h, oldSchema,
                                                  newSchema)},
             fwd \in {checkForwardCompatibility(targetSchema.h, oldSchema,
                                                newSchema)} }
      : targetSchema \in {flattenSchema(h, toSchemaContent)},
        direction \in {inferDirection(fromInstanceID, toSchemaID)} }

\* castInstance: the outcomes of the call; CastedEntity is the address of the
\* transformed copy
castInstance(h, fromInstanceID, toSchemaID, fromInstanceContent, fromSchemaContent, toSchemaContent) ==
    CASE Evaluated(h) ->
    UNION {
      LET oldSchema == IF direction = "down" THEN toSchemaContent
                       ELSE fromSchemaContent
          newSchema == IF direction = "down" THEN fromSchemaContent
                       ELSE toSchemaContent
      IN UNION {
           IF back.panic \/ fwd.panic
           THEN {Outcome(targetSchema.h, TRUE, NoError, <<>>)}
           ELSE UNION { {
                  Outcome(c.h, FALSE, NoError,
                    <<[FromID |-> fromInstanceID,
                       ToID |-> toSchemaID,
                       OldID |-> fromInstanceID,
                       NewID |-> toSchemaID,
                       Direction |-> direction,
                       AddedProperties |-> deduplicate(c.added),
                       RemovedProperties |-> deduplicate(c.removed),
                       ChangedProperties |-> <<>>,
                       IsFullyCompatible |-> c.a # Nil /\ err = <<>>,
                       IsBackwardCompatible |-> back.ok,
                       IsForwardCompatible |-> fwd.ok,
                       IncompatibilityReasons |->
                           IF err = <<>> THEN c.reasons
                           ELSE Append(c.reasons, err),
                       BackwardErrors |-> back.errors,
                       ForwardErrors |-> fwd.errors,
                       CastedEntity |-> c.a]>>)
                  : err \in IF c.a = Nil THEN {<<>>}
                            ELSE validateWithGtsIDTolerance(
                                   [heap |-> c.h, byID |-> byID],
                                   Deref(c.h, JMap(c.a)),
                                   Deref(c.h, JMap(toSchemaContent))) }
                  : c \in UNION {castInstanceToSchema(copy.h, copy.a,
                                                     targetSchema.a, <<>>)
                                 : copy \in {copyMap(targetSchema.h,
                                                     fromInstanceContent)}} }
           : back \in {checkBackwardCompatibility(targetSchema.h, oldSchema,
                                                  newSchema)},
             fwd \in {checkForwardCompatibility(targetSchema.h, oldSchema,
                                                newSchema)} }
      : targetSchema \in {flattenSchema(h, toSchemaContent)},
        direction \in {inferDirection(fromInstanceID, toSchemaID)} }

\* GtsStore.Cast: the outcomes of the call
CastCall(instanceID, toSchemaID) ==
    LET instanceEntity == Get(instanceID)
        toSchema == Get(toSchemaID)
        fromSchemaID == instanceEntity[1].SchemaID
        fromSchema == Get(fromSchemaID)
    IN IF instanceEntity = <<>>
       THEN {Outcome(heap, FALSE, StoreGtsObjectNotFoundError(instanceID), <<>>)}
       ELSE IF toSchema = <<>>
       THEN {Outcome(heap, FALSE, StoreGtsSchemaNotFoundError(toSchemaID), <<>>)}
       ELSE IF instanceEntity[1].IsSchema
       THEN {Outcome(heap, FALSE,
                    StoreGtsCastFromSchemaNotAllowedError(instanceID), <<>>)}
       ELSE IF fromSchemaID = <<>>
       THEN {Outcome(heap, FALSE,
                    StoreGtsSchemaForInstanceNotFoundError(instanceID), <<>>)}
       ELSE IF fromSchema = <<>>
       THEN {Outcome(heap, FALSE, StoreGtsSchemaNotFoundError(fromSchemaID), <<>>)}
       ELSE castInstance(heap, instanceID, toSchemaID,
                         instanceEntity[1].Content, fromSchema[1].Content,
                         toSchema[1].Content)

\* the CompatibilityResult of a check that could not run
CompatibilityFailure(oldSchemaID, newSchemaID, message) ==
    [FromID |-> oldSchemaID,
     ToID |-> newSchemaID,
     OldID |-> oldSchemaID,
     NewID |-> newSchemaID,
     Direction |-> "unknown",
     AddedProperties |-> <<>>,
     RemovedProperties |-> <<>>,
     ChangedProperties |-> <<>>,
     IsFullyCompatible |-> FALSE,
     IsBackwardCompatible |-> FALSE,
     IsForwardCompatible |-> FALSE,
     IncompatibilityReasons |-> <<>>,
     BackwardErrors |-> <<message>>,
     ForwardErrors |-> <<message>>]
\* CheckCompatibility that calls a pair fully compatible when either check
\* passes
CheckCompatibilityCallEither(oldSchemaID, newSchemaID) ==
    LET oldEntity == Get(oldSchemaID)
        newEntity == Get(newSchemaID)
        oldSchema == oldEntity[1].Content
        newSchema == newEntity[1].Content
    IN IF oldEntity = <<>> \/ newEntity = <<>>
       THEN Outcome(heap, FALSE, NoError,
              <<CompatibilityFailure(oldSchemaID, newSchemaID,
                                     Chars("Schema not found"))>>)
       ELSE IF oldSchema = Nil \/ newSchema = Nil
       THEN Outcome(heap, FALSE, NoError,
              <<CompatibilityFailure(oldSchemaID, newSchemaID,
                                     Chars("Invalid schema content"))>>)
       ELSE Only({
              IF back.panic \/ fwd.panic
              THEN Outcome(heap, TRUE, NoError, <<>>)
              ELSE Outcome(heap, FALSE, NoError,
                     <<[FromID |-> oldSchemaID,
                        ToID |-> newSchemaID,
                        OldID |-> oldSchemaID,
                        NewID |-> newSchemaID,
                        Direction |-> inferDirection(oldSchemaID, newSchemaID),
                        AddedProperties |-> <<>>,
                        RemovedProperties |-> <<>>,
                        ChangedProperties |-> <<>>,
                        IsFullyCompatible |-> back.ok \/ fwd.ok,
                        IsBackwardCompatible |-> back.ok,
                        IsForwardCompatible |-> fwd.ok,
                        IncompatibilityReasons |-> <<>>,
                        BackwardErrors |-> back.errors,
                        ForwardErrors |-> fwd.errors]>>)
              : back \in {checkBackwardCompatibility(heap, oldSchema, newSchema)},
                fwd \in {checkForwardCompatibility(heap, oldSchema, newSchema)} })

\* GtsStore.CheckCompatibility
CheckCompatibilityCall(oldSchemaID, newSchemaID) ==
    LET oldEntity == Get(oldSchemaID)
        newEntity == Get(newSchemaID)
        oldSchema == oldEntity[1].Content
        newSchema == newEntity[1].Content
    IN IF oldEntity = <<>> \/ newEntity = <<>>
       THEN Outcome(heap, FALSE, NoError,
              <<CompatibilityFailure(oldSchemaID, newSchemaID,
                                     Chars("Schema not found"))>>)
       ELSE IF oldSchema = Nil \/ newSchema = Nil
       THEN Outcome(heap, FALSE, NoError,
              <<CompatibilityFailure(oldSchemaID, newSchemaID,
                                     Chars("Invalid schema content"))>>)
       ELSE Only({
              IF back.panic \/ fwd.panic
              THEN Outcome(heap, TRUE, NoError, <<>>)
              ELSE Outcome(heap, FALSE, NoError,
                     <<[FromID |-> oldSchemaID,
                        ToID |-> newSchemaID,
                        OldID |-> oldSchemaID,
                        NewID |-> newSchemaID,
                        Direction |-> inferDirection(oldSchemaID, newSchemaID),
                        AddedProperties |-> <<>>,
                        RemovedProperties |-> <<>>,
                        ChangedProperties |-> <<>>,
                        IsFullyCompatible |-> back.ok /\ fwd.ok,
                        IsBackwardCompatible |-> back.ok,
                        IsForwardCompatible |-> fwd.ok,
                        IncompatibilityReasons |-> <<>>,
                        BackwardErrors |-> back.errors,
                        ForwardErrors |-> fwd.errors]>>)
              : back \in {checkBackwardCompatibility(heap, oldSchema, newSchema)},
                fwd \in {checkForwardCompatibility(heap, oldSchema, newSchema)} })

-----------------------------------------------------------------------------
(* Documents of the cast runs                                               *)

T10 == Chars("gts.x.c.e.t.v1.0~")
T11 == Chars("gts.x.c.e.t.v1.1~")
I10 == Chars("gts.x.c.e.t.v1.0~x.c.e.i.v1.0")
I11 == Chars("gts.x.c.e.t.v1.1~x.c.e.i.v1.0")
I0 == Chars("gts.x.c.e.i.v1.0")
\* an instance of the later schema whose own last segment has minor version 1
I11Later == Chars("gts.x.c.e.t.v1.1~x.c.e.i.v1.1")
\* a type identifier given to a document that has no $schema field
TBare == Chars("gts.x.c.e.s.v1.0~")

\* a document from its (key, value) pairs; a later pair replaces an earlier
\* one with the same key
KV(k, v) == <<Chars(k), v>>
Doc(pairs) ==
    JObj([k \in {pairs[i][1] : i \in 1..Len(pairs)} |->
            pairs[Max({i \in 1..Len(pairs) : pairs[i][1] = k})][2]])
Strs(names) == JArr([i \in 1..Len(names) |-> JStr(Chars(names[i]))])

StrType == Doc(<<KV("type", JStr(T_string))>>)
NumType == Doc(<<KV("type", JStr(T_number))>>)
ModeDefault == Doc(<<KV("type", JStr(T_string)), KV("default", JStr(Chars("std")))>>)
ModeBadDefault == Doc(<<KV("type", JStr(T_number)), KV("default", JStr(Chars("std")))>>)
LevelMin == Doc(<<KV("type", JStr(T_number)), KV("minimum", JNum(1))>>)
CfgSchema ==
    Doc(<<KV("type", JStr(T_object)),
          KV("properties", Doc(<<KV("depth",
                Doc(<<KV("type", JStr(T_number)), KV("default", JNum(1))>>))>>)),
          KV("additionalProperties", JBool(FALSE))>>)
RowsSchema ==
    Doc(<<KV("type", JStr(T_array)),
          KV("items", Doc(<<KV("type", JStr(T_object)),
                KV("properties", Doc(<<KV("n",
                    Doc(<<KV("type", JStr(T_number)), KV("default", JNum(0))>>))>>))>>))>>)

\* every schema declares the identifier fields of its instances
Props(ps) ==
    KV("properties", Doc(<<KV("gtsId", StrType), KV("type", StrType)>> \o ps))
NameOnly == <<KV("name", StrType)>>
NameRequired == KV("required", Strs(<<"name">>))

SchemaBodies(id) ==
    << <<Props(NameOnly), NameRequired>>,
       <<Props(NameOnly \o <<KV("mode", ModeDefault)>>), NameRequired>>,
       <<Props(NameOnly \o <<KV("mode", ModeDefault)>>),
         KV("required", Strs(<<"name", "mode">>))>>,
       <<Props(NameOnly \o <<KV("level", LevelMin)>>),
         KV("required", Strs(<<"name", "level">>))>>,
       <<Props(NameOnly), NameRequired, KV("additionalProperties", JBool(FALSE))>>,
       <<Props(NameOnly \o <<KV("type", Doc(<<KV("const", JStr(id))>>))>>),
         NameRequired>>,
       <<Props(NameOnly \o <<KV("cfg", CfgSchema)>>), NameRequired>>,
       <<Props(NameOnly \o <<KV("rows", RowsSchema)>>), NameRequired>>,
       <<Props(NameOnly \o <<KV("mode", ModeBadDefault)>>), NameRequired>>,
       <<Props(<<KV("name", JBool(TRUE))>>), NameRequired>>,
       <<KV("allOf", JArr(<<Doc(<<Props(NameOnly \o <<KV("mode", ModeDefault)>>),
                                  NameRequired>>)>>))>>,
       <<Props(NameOnly \o <<KV("mode", ModeDefault)>>), NameRequired,
         KV("additionalProperties", JBool(FALSE))>>,
       <<Props(NameOnly), KV("required", Strs(<<"name", "mode">>))>>,
       <<KV("allOf", JArr(<<Doc(<<KV("$ref", JStr(T10))>>),
                            Doc(<<Props(<<KV("mode", ModeDefault)>>)>>)>>))>> >>

SchemaDoc(id, body) ==
    Doc(<<KV("$id", JStr(id)), KV("$schema", JStr(MetaSchemaURL)),
          KV("type", JStr(T_object))>> \o body).v

\* the bodies the earlier minor version may have, and those of the later one
\* (0: not registered); the last body refers to the earlier version
EarlierBodies == 1..13
LaterBodies == {0, 1, 2, 3, 5, 6, 10, 13, 14}

InstanceDoc(id, typeID, rest) ==
    Doc(<<KV("gtsId", JStr(id)), KV("type", JStr(typeID))>> \o rest).v
NameN == KV("name", JStr(Chars("n")))

InstanceDocs ==
    << InstanceDoc(I10, T10, <<NameN>>),
       InstanceDoc(I10, T10, <<NameN, KV("mode", JStr(Chars("alt")))>>),
       InstanceDoc(I10, T10, <<NameN, KV("extra", JNum(1))>>),
       InstanceDoc(I10, T10, <<>>),
       InstanceDoc(I10, T10, <<KV("name", JNum(5))>>),
       InstanceDoc(I10, T10, <<NameN, KV("level", JNum(2))>>),
       InstanceDoc(I10, T10, <<NameN, KV("cfg", Doc(<<>>))>>),
       InstanceDoc(I10, T10, <<NameN, KV("cfg",
            Doc(<<KV("depth", JNum(2)), KV("junk", JNum(1))>>))>>),
       InstanceDoc(I10, T10, <<NameN, KV("rows",
            JArr(<<Doc(<<KV("n", JNum(1))>>), Doc(<<>>)>>))>>),
       InstanceDoc(I10, T10, <<NameN, KV("rows", JArr(<<JNum(3)>>))>>),
       InstanceDoc(I11, T11, <<NameN>>),
       Doc(<<KV("gtsId", JStr(I0)), NameN>>).v,
       InstanceDoc(TBare, T10, <<NameN>>),
       InstanceDoc(I11Later, T11, <<NameN>>) >>

CastFromIDs == {I10, I11, I0, T10, TBare, I11Later}
SchemaIDs == {T10, T11}
\* the targets of Cast: the schemas and one instance identifier
CastToIDs == SchemaIDs \cup {I10}

-----------------------------------------------------------------------------
(* Cast runs: a registry filled by Register, then one call                  *)

\* the documents of a run: the schema of version 1.0 with body s10, that of
\* version 1.1 with body s11 (0: none) and instance d (0: none)
RunDocs(s10, s11, d) ==
    <<SchemaDoc(T10, SchemaBodies(T10)[s10])>>
    \o (IF s11 = 0 THEN <<>> ELSE <<SchemaDoc(T11, SchemaBodies(T11)[s11])>>)
    \o (IF d = 0 THEN <<>> ELSE <<InstanceDocs[d]>>)

InitCast ==
    /\ mode = "cast" /\ pc = "ready"
    /\ \E s10 \in EarlierBodies, s11 \in LaterBodies,
          d \in 0..Len(InstanceDocs) :
          \E reg \in {RegisterAll([heap |-> <<>>, byID |-> <<>>],
                                  RunDocs(s10, s11, d))} :
              heap = reg.heap /\ byID = reg.byID
    /\ castArgs = <<>> /\ castResult = <<>>
    /\ IdIdle /\ ResolverIdle /\ QueryIdle /\ ReaderIdle /\ StoreIdle /\ XrefIdle

Cast ==
    /\ mode = "cast" /\ pc = "ready"
    /\ \E instanceID \in CastFromIDs, toSchemaID \in CastToIDs :
          \E r \in CastCall(instanceID, toSchemaID) :
            /\ heap' = r.h
            /\ castArgs' = <<instanceID, toSchemaID>>
            /\ castResult' = [op |-> "Cast", panic |-> r.panic,
                              err |-> r.err, res |-> r.res]
    /\ pc' = "done"
    /\ UNCHANGED <<mode, byID, candidate, pattern, parsed, matchResult,
                   rootID, seen, stack, graph, steps,
                   queryArgs, queryResult,
                   reader, readLog,
                   config, storeResult, xref>>

CheckCompatibility ==
    /\ mode = "cast" /\ pc = "ready"
    /\ \E oldSchemaID \in SchemaIDs, newSchemaID \in SchemaIDs :
          \E r \in {CheckCompatibilityCall(oldSchemaID, newSchemaID)} :
            /\ heap' = r.h
            /\ castArgs' = <<oldSchemaID, newSchemaID>>
            /\ castResult' = [op |-> "CheckCompatibility", panic |-> r.panic,
                              err |-> r.err, res |-> r.res]
    /\ pc' = "done"
    /\ UNCHANGED <<mode, byID, candidate, pattern, parsed, matchResult,
                   rootID, seen, stack, graph, steps,
                   queryArgs, queryResult,
                   reader, readLog,
                   config, storeResult, xref>>

NextCast == Cast \/ CheckCompatibility
SpecCast == InitCast /\ [][NextCast]_vars

-----------------------------------------------------------------------------
(* Claims about the cast engine                                             *)

\* content of a registered entity, as a document
ContentOf(h, entity) == Deref(h, JMap(entity.Content))

\* the property schemas a schema document declares
PropsOf(doc) ==
    IF Has(doc.v, K_properties) /\ doc.v[K_properties].t = "obj"
    THEN doc.v[K_properties].v ELSE <<>>

\* a Cast call has returned a result
CastDone ==
    /\ mode = "cast" /\ pc = "done"
    /\ castResult.op = "Cast" /\ ~castResult.panic /\ castResult.res # <<>>

\* Which documents of the runs conform to which schema bodies, worked out by
\* hand from the documents (InstanceDocs by number, SchemaBodies by number):
\*   1, 2, 6, 11  name is text and required: every document but 4 (no name)
\*                and 5 (name is a number); the const of body 6 is the
\*                schema's own identifier, which the documents of that schema
\*                carry as their type
\*   3, 13        name and mode are required: document 2
\*   4            name and level are required: document 6
\*   5            no property beyond the identifier, the type and name:
\*                documents 1, 11 and 14
\*   7            cfg takes no property beyond depth: not document 8
\*   8            the rows are objects: not document 10
\*   9            mode is a number: not document 2
\*   10           name is required and may be anything: every document but 4
\*   12           no property beyond the identifier, the type, name and mode:
\*                documents 1 and 2
\*   14           the documents of the later schema that conform to the
\*                earlier schema as registered, with any type
\* Documents 12 and 13 are not instances of a registered schema.
NamedDocs == {1, 2, 3, 6, 7, 8, 9, 10, 11, 14}
ConformingDocs(body) ==
    CASE body \in {1, 2, 6, 11} -> NamedDocs
      [] body \in {3, 13} -> {2}
      [] body = 4 -> {6}
      [] body = 5 -> {1, 11, 14}
      [] body = 7 -> NamedDocs \ {8}
      [] body = 8 -> NamedDocs \ {10}
      [] body = 9 -> NamedDocs \ {2}
      [] body = 10 -> NamedDocs \cup {5}
      [] body = 12 -> {1, 2}
      [] body = 14 -> {11, 14}
\* the bodies of the earlier schema that a document with name alone satisfies
\* whatever its type
AcceptsNameAlone == {1, 2, 5, 7, 8, 9, 10, 11, 12}

\* the number of the body of a registered schema and of the document of a
\* registered instance
BodyOf(id) ==
    CHOOSE body \in 1..Len(SchemaBodies(id)) :
        ContentOf(heap, byID[id]) = JObj(SchemaDoc(id, SchemaBodies(id)[body]))
DocOf(id) ==
    CHOOSE d \in 1..Len(InstanceDocs) :
        ContentOf(heap, byID[id]) = JObj(InstanceDocs[d])

\* the properties a schema document declares, those of its allOf parts
\* included
RECURSIVE DeclaredProps(_)
DeclaredProps(doc) ==
    IF doc.t # "obj" THEN {}
    ELSE {<<p, PropsOf(doc)[p]>> : p \in DOMAIN PropsOf(doc)}
         \cup (IF Has(doc.v, K_allOf) /\ doc.v[K_allOf].t = "arr"
               THEN UNION {DeclaredProps(doc.v[K_allOf].v[i]) :
                              i \in 1..Len(doc.v[K_allOf].v)}
               ELSE {})

\* the value has every property for which the schema declares a default, and
\* so have its nested objects and the objects of its lists for the schemas
\* declared for them
RECURSIVE DefaultsPresent(_, _)
DefaultsPresent(schema, value) ==
    value.t = "obj" =>
        \A d \in DeclaredProps(schema) :
            /\ (d[2].t = "obj" /\ Has(d[2].v, Chars("default")))
                  => Has(value.v, d[1])
            /\ (d[2].t = "obj" /\ Has(value.v, d[1])) =>
                  /\ DefaultsPresent(d[2], value.v[d[1]])
                  /\ (value.v[d[1]].t = "arr" /\ Has(d[2].v, K_items)) =>
                        \A i \in 1..Len(value.v[d[1]].v) :
                            DefaultsPresent(d[2].v[K_items], value.v[d[1]].v[i])

\* a Cast call has ended, by a return or by a crash, that cast a registered
\* instance against the schema the instance names as its own, and the
\* instance conforms to that schema
CastToOwnSchema ==
    /\ mode = "cast" /\ pc = "done" /\ castResult.op = "Cast"
    /\ castArgs[1] \in DOMAIN byID /\ castArgs[2] \in DOMAIN byID
    /\ castArgs[1] \in {I10, I11, I11Later}
    /\ castArgs[2] = byID[castArgs[1]].SchemaID
    /\ DocOf(castArgs[1]) \in ConformingDocs(BodyOf(castArgs[2]))
    /\ BodyOf(castArgs[2]) = 14 => BodyOf(T10) \in AcceptsNameAlone

\* the instance of the call has every property for which its schema declares
\* a default
InstanceHasDefaults ==
    DefaultsPresent(ContentOf(heap, byID[castArgs[2]]),
                    ContentOf(heap, byID[castArgs[1]]))

\* the schema of the call gives a property a sub-schema that is not an object
NonObjectProperty ==
    \E d \in DeclaredProps(ContentOf(heap, byID[castArgs[2]])) : d[2].t # "obj"

CastUnchanged ==
    /\ castResult.res # <<>>
    /\ castResult.res[1].CastedEntity # Nil
    /\ Deref(heap, JMap(castResult.res[1].CastedEntity))
         = ContentOf(heap, byID[castArgs[1]])
    /\ castResult.res[1].IsFullyCompatible

\* C4: Cast and CheckCompatibility leave the content of every registered
\* entity, and the set of registered entities, as they were before the call.
C4_RegistryContentUnchanged ==
    [][(mode = "cast") =>
          /\ DOMAIN byID' = DOMAIN byID
          /\ \A id \in DOMAIN byID :
                ContentOf(heap', byID'[id]) = ContentOf(heap, byID[id])]_vars

\* a Cast has returned content that differs from the registered instance's
C4_Witness ==
    /\ CastDone
    /\ castResult.res[1].CastedEntity # Nil
    /\ castResult.res[1].AddedProperties # <<>>
    /\ castResult.res[1].RemovedProperties # <<>>
    /\ Deref(heap, JMap(castResult.res[1].CastedEntity))
         # ContentOf(heap, byID[castArgs[1]])

\* a CheckCompatibility call on two registered schemas has returned its report
CompatChecked ==
    /\ mode = "cast" /\ pc = "done"
    /\ castResult.op = "CheckCompatibility" /\ ~castResult.panic
    /\ castArgs[1] \in DOMAIN byID /\ castArgs[2] \in DOMAIN byID

\* the required set of a schema document with its allOf parts merged in: the
\* strings of its own required list and of the required lists of the parts
RECURSIVE FlatRequired(_)
FlatRequired(doc) ==
    LET m == doc.v
        own == IF Has(m, K_required) /\ m[K_required].t = "arr"
               THEN {x.v : x \in {y \in Range(m[K_required].v) : y.t = "str"}}
               ELSE {}
        parts == IF Has(m, K_allOf) /\ m[K_allOf].t = "arr"
                 THEN {y \in Range(m[K_allOf].v) : y.t = "obj"}
                 ELSE {}
    IN own \cup UNION {FlatRequired(part) : part \in parts}

OldRequired == FlatRequired(ContentOf(heap, byID[castArgs[1]]))
NewRequired == FlatRequired(ContentOf(heap, byID[castArgs[2]]))
AddedRequiredText == Chars("Added required properties: ")
RemovedRequiredText == Chars("Removed required properties: ")

\* C11: the backward check reports "Added required properties" exactly when the
\* new schema's flattened required set holds a property the old one's does not,
\* and the report names those properties; the forward check reports "Removed
\* required properties" exactly when the old set holds a property the new one's
\* does not, and names them.
C11_RequiredChangesReported ==
    CompatChecked =>
        LET r == castResult.res[1] IN
        /\ (\E e \in Range(r.BackwardErrors) : HasPrefix(e, AddedRequiredText))
              <=> NewRequired \ OldRequired # {}
        /\ \A e \in Range(r.BackwardErrors) :
              HasPrefix(e, AddedRequiredText) =>
                 e = AddedRequiredText
                       \o joinStrings(SortStrings(NewRequired \ OldRequired))
        /\ (\E e \in Range(r.ForwardErrors) : HasPrefix(e, RemovedRequiredText))
              <=> OldRequired \ NewRequired # {}
        /\ \A e \in Range(r.ForwardErrors) :
              HasPrefix(e, RemovedRequiredText) =>
                 e = RemovedRequiredText
                       \o joinStrings(SortStrings(OldRequired \ NewRequired))

\* the old schema requires name, the new one name and mode: the backward check
\* fails naming mode, the forward check passes
C11_Witness ==
    /\ CompatChecked
    /\ OldRequired = {Chars("name")}
    /\ NewRequired = {Chars("name"), Chars("mode")}
    /\ ~castResult.res[1].IsBackwardCompatible
    /\ castResult.res[1].BackwardErrors
         = <<Chars("Added required properties: mode")>>
    /\ castResult.res[1].IsForwardCompatible

-----------------------------------------------------------------------------
(* Query engine                                                             *)


TrimSuffix(s, p) == IF HasSuffix(s, p) THEN SubSeq(s, 1, Len(s) - Len(p)) ELSE s

\* strings.Trim(s, cutset)
Trim(s, cutset) ==
    LET keep == {i \in 1..Len(s) : s[i] \notin cutset}
    IN IF keep = {} THEN <<>> ELSE SubSeq(s, Min(keep), Max(keep))

\* the texts of a sequence with a space between them
RECURSIVE JoinSpace(_)
JoinSpace(strs) ==
    IF strs = <<>> THEN <<>>
    ELSE IF Len(strs) = 1 THEN strs[1]
    ELSE strs[1] \o <<" ">> \o JoinSpace(Tail(strs))

\* fmt's %v of a float64 that is a whole number: its digits, and from a
\* million on the exponent form, 1e+06 or 1.234567e+06
RECURSIVE TrimZeros(_)
TrimZeros(ds) ==
    IF Len(ds) > 1 /\ ds[Len(ds)] = "0" THEN TrimZeros(SubSeq(ds, 1, Len(ds) - 1))
    ELSE ds
FormatFloatV(f) ==
    LET ds == ItoaNat(IF f < 0 THEN 0 - f ELSE f)
        exp == Len(ds) - 1
        mant == TrimZeros(ds)
    IN  IF exp < 6 THEN Itoa(f)
        ELSE (IF f < 0 THEN <<"-">> ELSE <<>>)
             \o <<Head(mant)>>
             \o (IF Len(mant) > 1 THEN <<".">> \o Tail(mant) ELSE <<>>)
             \o Chars("e+") \o (IF exp < 10 THEN <<"0">> ELSE <<>>) \o Itoa(exp)

\* fmt.Sprintf("%v", v) of a content value: nil prints as <nil>, a map with
\* its keys in sorted order, a number as %v prints a float64
RECURSIVE Sprintv(_, _)
Sprintv(h, val) ==
    IF val.t = "str" THEN val.v
    ELSE IF val.t = "num" THEN FormatFloatV(val.v)
    ELSE IF val.t = "bool" THEN IF val.v THEN Chars("true") ELSE Chars("false")
    ELSE IF val.t = "null" THEN Chars("<nil>")
    ELSE IF val.t = "arr"
    THEN <<"[">> \o JoinSpace([i \in 1..Len(val.v) |-> Sprintv(h, val.v[i])])
         \o <<"]">>
    ELSE LET m == Obj(h, val.v)
             keys == SortStrings(DOMAIN m)
         IN Chars("map[")
            \o JoinSpace([i \in 1..Len(keys) |->
                            keys[i] \o <<":">> \o Sprintv(h, m[keys[i]])])
            \o <<"]">>

\* an error of the query engine: the text "invalid query: " followed by the
\* cause; no error is the empty sequence
QueryError(cause) == <<"invalid query: ", cause>>

\* parseQueryFilters: the key=value pieces between commas, as a map; a later
\* piece replaces an earlier one with the same key
parseQueryFilters(filterStr) ==
    IF filterStr = <<>> THEN <<>>
    ELSE LET parts == Split(filterStr, ",")
             trimmed == [i \in 1..Len(parts) |-> TrimSpace(parts[i])]
             withEq == {i \in 1..Len(parts) : ContainsCh(trimmed[i], "=")}
             key(i) == TrimSpace(SplitN2(trimmed[i], "=")[1])
             value(i) == Trim(TrimSpace(SplitN2(trimmed[i], "=")[2]), {"\"", "'"})
         IN [k \in {key(i) : i \in withEq} |->
               value(Max({i \in withEq : key(i) = k}))]

\* parseQueryExpression: the base pattern and the filters of pattern[filters]
parseQueryExpression(expr) ==
    LET parts == SplitN2(expr, "[")
        basePattern == TrimSpace(parts[1])
        filterStr == TrimSpace(parts[2])
    IN IF Len(parts) = 2
       THEN IF ~HasSuffix(filterStr, <<"]">>)
            THEN [err |-> QueryError("missing closing bracket ']'"),
                  basePattern |-> <<>>, filters |-> <<>>]
            ELSE [err |-> <<>>, basePattern |-> basePattern,
                  filters |-> parseQueryFilters(TrimSuffix(filterStr, <<"]">>))]
       ELSE [err |-> <<>>, basePattern |-> basePattern, filters |-> <<>>]

\* validateQueryPattern: a wildcard pattern ends with .* or ~* and passes
\* validateWildcard; any other pattern is an identifier NewGtsID accepts
validateQueryPattern(basePattern, isWildcard) ==
    IF isWildcard
    THEN IF ~HasSuffix(basePattern, <<".", "*">>)
            /\ ~HasSuffix(basePattern, <<"~", "*">>)
         THEN QueryError("wildcard patterns must end with .* or ~*")
         ELSE Only({ IF w.err # "" THEN QueryError(w.err) ELSE <<>>
                     : w \in {validateWildcard(basePattern)} })
    ELSE Only({ IF g.err # "" THEN QueryError(g.err)
                ELSE IF Len(g.Segments) = 0
                THEN QueryError("GTS ID has no valid segments")
                ELSE <<>>
                : g \in {NewGtsID(basePattern)} })

\* matchesIDPattern; the identifier of a registered entity is never nil
matchesIDPattern(entityID, basePattern, isWildcard) ==
    MatchIDPattern(entityID, basePattern).Match

\* matchesFilters: every filter value equals the printed content value under
\* its key, or is * with a printed value other than the empty text and <nil>
matchesFilters(h, entityContent, filters) ==
    \A key \in DOMAIN filters :
        LET m == Obj(h, entityContent)
            entityValue == IF Has(m, key) THEN Sprintv(h, m[key])
                           ELSE Chars("<nil>")
        IN IF filters[key] = <<"*">>
           THEN entityValue # <<>> /\ entityValue # Chars("<nil>")
           ELSE entityValue = filters[key]

DefaultLimit == 100

\* the tests of the body of Query's loop on the entity registered under id;
\* they read the entity and change nothing
queryKeeps(id, basePattern, isWildcard, filters) ==
    /\ DOMAIN Obj(heap, byID[id].Content) # {}
    /\ matchesIDPattern(byID[id].GtsID, basePattern, isWildcard)
    /\ matchesFilters(heap, byID[id].Content, filters)

\* the loop of Query over the registered entities, visited in the order ids;
\* kept holds the identifiers of the entities that pass the tests of the body
RECURSIVE queryLoop(_, _, _, _)
queryLoop(ids, results, limit, kept) ==
    IF ids = <<>> \/ Len(results) >= limit THEN results
    ELSE queryLoop(Tail(ids),
                   IF Head(ids) \in kept
                   THEN Append(results, byID[Head(ids)].Content)
                   ELSE results,
                   limit, kept)

\* GtsStore.Query: the results the call can return, one for every order in
\* which the range over store.byID can visit the registry; Results holds the
\* addresses of the returned content maps
QueryCall(expr, limit) ==
    LET lim == IF limit <= 0 THEN DefaultLimit ELSE limit
        failed(err) == [Error |-> err, Count |-> 0, Limit |-> lim,
                        Results |-> <<>>]
    IN UNION {
         IF q.err # <<>> THEN {failed(q.err)}
         ELSE UNION {
                IF err # <<>> THEN {failed(err)}
                ELSE UNION {
                       IF Evaluated(kept)
                       THEN { [Error |-> <<>>, Count |-> Len(results),
                               Limit |-> lim, Results |-> results]
                              : results \in {queryLoop(ids, <<>>, lim, kept)
                                             : ids \in Orders(DOMAIN byID)} }
                       ELSE {}
                       : kept \in {UNION {IF queryKeeps(id, q.basePattern,
                                                ContainsCh(q.basePattern, "*"),
                                                q.filters)
                                          THEN {id} ELSE {}
                                          : id \in DOMAIN byID}} }
                : err \in {validateQueryPattern(q.basePattern,
                              ContainsCh(q.basePattern, "*"))} }
         : q \in {parseQueryExpression(expr)} }

\* the error RegisterSchema returns, <<>> for nil: the type id does not end
\* with '~', or NewGtsID rejects it
RegisterSchemaErr(typeID) ==
    IF typeID[Len(typeID)] # "~" THEN <<"schema type_id must end with '~'">>
    ELSE Only({ IF gtsID.err # "" THEN <<gtsID.err>> ELSE <<>>
                : gtsID \in {NewGtsID(typeID)} })

\* RegisterSchema: the schema is stored under the type id as it was given
RegisterSchema(reg, typeID, schema) ==
    CASE Evaluated(reg) ->
    IF typeID[Len(typeID)] # "~" THEN reg
    ELSE Only({
           IF gtsID.err # "" THEN reg
           ELSE Only({
                  [heap |-> l.h,
                   byID |-> (typeID :>
                                [GtsID |-> gtsID.ID,
                                 Content |-> l.v.v,
                                 IsSchema |-> TRUE,
                                 SchemaID |-> <<>>])
                            @@ reg.byID]
                  : l \in {Load(reg.heap, schema)} })
           : gtsID \in {NewGtsID(typeID)} })

-----------------------------------------------------------------------------
(* Documents and expressions of the query runs                              *)

QType == Chars("gts.x.q.e.t.v1~")
QEmptyType == Chars("gts.x.q.e.u.v1~")
QItem(name) == QType \o Chars("x.q.e.") \o Chars(name) \o Chars(".v1")
QOther == Chars("gts.x.o.e.t.v1~x.o.e.d.v1")

QueryDocs ==
    << Doc(<<KV("gtsId", JStr(QItem("a"))), KV("status", JStr(Chars("active")))>>).v,
       Doc(<<KV("gtsId", JStr(QItem("b"))), KV("status", JStr(Chars("active"))),
             KV("category", JStr(<<>>)), KV("n", JNum(1))>>).v,
       Doc(<<KV("gtsId", JStr(QItem("c"))), KV("status", JStr(Chars("<nil>"))),
             KV("category", JStr(Chars("c"))), KV("n", JNum(1200000))>>).v,
       Doc(<<KV("gtsId", JStr(QOther)), KV("status", JStr(Chars("active")))>>).v,
       Doc(<<KV("gtsId", JStr(QItem("e"))), KV("status", JNull),
             KV("category", JArr(<<JNum(1), JBool(TRUE)>>)), KV("n", JNum(1))>>).v,
       Doc(<<KV("$id", JStr(QType)), KV("$schema", JStr(MetaSchemaURL)),
             KV("status", JStr(Chars("active")))>>).v >>

QueryExprs ==
    { Chars("gts.x.q.*"),
      Chars("gts.*"),
      Chars("gts.x.q.*[status=active]"),
      Chars("gts.x.q.*[status=*]"),
      Chars(" gts.x.q.e.t.v1~* [ status = \"active\" , category=* ]"),
      Chars("gts.x.q.*[category=[1 true], n='1']"),
      Chars("gts.x.q.*[n=2, n=1]"),
      Chars("gts.x.q.*[n=1.2e+06]"),
      Chars("gts.x.q.e.t.v1~x.q.e.a.v1[status=active]"),
      Chars("gts.x.q.e.t.v1~"),
      Chars("gts.x.q.e.t.v1~[status=active]"),
      Chars("gts.x.q.*[status=active"),
      Chars("gts.x.q*"),
      Chars("gts.x.q.e.t[status=active]") }

QueryLimits == {0 - 1, 0, 1, 2, 3}

\* the subsequence of docs at the positions in S
RECURSIVE Pick(_, _)
Pick(docs, S) ==
    IF docs = <<>> THEN <<>>
    ELSE (IF Len(docs) \in S THEN Pick(SubSeq(docs, 1, Len(docs) - 1), S)
                                  \o <<docs[Len(docs)]>>
          ELSE Pick(SubSeq(docs, 1, Len(docs) - 1), S))

-----------------------------------------------------------------------------
(* Query runs: a registry filled by Register and RegisterSchema, then one   *)
(* Query call                                                               *)

InitQuery ==
    /\ mode = "query" /\ pc = "ready"
    /\ \E S \in SUBSET (1..Len(QueryDocs)), withEmpty \in BOOLEAN :
          \E reg \in {RegisterAll([heap |-> <<>>, byID |-> <<>>],
                                  Pick(QueryDocs, S))} :
             \E full \in {IF withEmpty
                          THEN RegisterSchema(reg, QEmptyType, Doc(<<>>))
                          ELSE reg} :
                heap = full.heap /\ byID = full.byID
    /\ castArgs = <<>> /\ castResult = <<>>
    /\ IdIdle /\ ResolverIdle /\ QueryIdle /\ ReaderIdle /\ StoreIdle /\ XrefIdle

Query ==
    /\ mode = "query" /\ pc = "ready"
    /\ \E expr \in QueryExprs, limit \in QueryLimits :
          \E r \in QueryCall(expr, limit) :
             /\ queryArgs' = [expr |-> expr, limit |-> limit]
             /\ queryResult' = r
    /\ pc' = "done"
    /\ UNCHANGED <<mode, candidate, pattern, parsed, matchResult, byID, rootID,
                   seen, stack, graph, steps, heap, castArgs, castResult,
                   reader, readLog,
                   config, storeResult, xref>>

NextQuery == Query
SpecQuery == InitQuery /\ [][NextQuery]_vars

-----------------------------------------------------------------------------
(* Claims about the query engine                                            *)

\* a Query call with a valid expression has returned
QueryAnswered ==
    /\ mode = "query" /\ pc = "done"
    /\ queryResult.Error = <<>>

QueryBase == parseQueryExpression(queryArgs.expr).basePattern
QueryFilters == parseQueryExpression(queryArgs.expr).filters
EffectiveLimit == IF queryArgs.limit > 0 THEN queryArgs.limit ELSE 100

\* the content under id satisfies the filter key=value: the printed value
\* under key equals value, or value is * and the key is present with a value
\* that is not null and does not print as the empty text
Satisfies(id, key, value) ==
    LET m == Obj(heap, byID[id].Content)
        printed == IF Has(m, key) THEN Sprintv(heap, m[key]) ELSE Chars("<nil>")
    IN IF value = <<"*">>
       THEN Has(m, key) /\ m[key].t # "null" /\ printed # <<>>
       ELSE printed = value

\* the registered entities a query is to return
Qualified ==
    {id \in DOMAIN byID :
        /\ DOMAIN Obj(heap, byID[id].Content) # {}
        /\ MatchIDPattern(byID[id].GtsID, QueryBase).Match
        /\ \A key \in DOMAIN QueryFilters : Satisfies(id, key, QueryFilters[key])}

\* C12: a valid query returns exactly min(L, M) results, L the effective limit
\* and M the number of entities with non-empty content whose identifier
\* matches the base pattern and whose content satisfies every filter; Count is
\* the number of results, every result is the content of such an entity and
\* none is returned twice.
C12_QueryReturnsMinOfLimitAndMatches ==
    QueryAnswered =>
        LET results == queryResult.Results
            M == Cardinality(Qualified)
        IN /\ queryResult.Count = Len(results)
           /\ Len(results) = IF EffectiveLimit < M THEN EffectiveLimit ELSE M
           /\ \A i \in 1..Len(results) :
                 \E id \in Qualified : byID[id].Content = results[i]
           /\ \A i, j \in 1..Len(results) : results[i] = results[j] => i = j

-----------------------------------------------------------------------------
(* Claims about the reports of Cast and CheckCompatibility                  *)

\* a call of the cast runs has returned a report
ReportReturned ==
    /\ mode = "cast" /\ pc = "done"
    /\ ~castResult.panic /\ castResult.res # <<>>

BothChecksPass ==
    /\ castResult.res[1].IsBackwardCompatible
    /\ castResult.res[1].IsForwardCompatible

\* C13 (as stated): in every report, that of a cast result included,
\* is_fully_compatible is true exactly when the backward check and the forward
\* check both pass.
C13_FullyIffBackwardAndForward ==
    ReportReturned => (castResult.res[1].IsFullyCompatible <=> BothChecksPass)

\* C13 (amended): in every report that CheckCompatibility returns,
\* is_fully_compatible is true exactly when the backward check and the forward
\* check both pass.
C13_FullyIffBothChecksOfCheckCompatibility ==
    (ReportReturned /\ castResult.op = "CheckCompatibility") =>
        (castResult.res[1].IsFullyCompatible <=> BothChecksPass)

\* CheckCompatibility has found a pair backward compatible and not forward
\* compatible, and reported it not fully compatible
C13_Witness ==
    /\ ReportReturned /\ castResult.op = "CheckCompatibility"
    /\ castResult.res[1].IsBackwardCompatible
    /\ ~castResult.res[1].IsForwardCompatible
    /\ ~castResult.res[1].IsFullyCompatible

\* C14: CheckCompatibility and Cast do not crash, whatever the shape of the
\* property sub-schemas of the registered schemas: every call returns a
\* result or an error value.
C14_NeverCrashes ==
    (mode = "cast" /\ pc = "done") => ~castResult.panic

\* a Cast call has returned, with a result or an error
CastReturned ==
    /\ mode = "cast" /\ pc = "done"
    /\ castResult.op = "Cast" /\ ~castResult.panic

\* C16: Cast returns an error, and no cast result, whenever its source
\* identifier is that of a Type: its text ends with ~.
C16_CastFromTypeIsError ==
    (CastReturned /\ HasSuffix(castArgs[1], <<"~">>)) =>
        castResult.err # NoError /\ castResult.res = <<>>

\* the registry holds gtsID as a schema document
RegisteredSchema(gtsID) == gtsID \in DOMAIN byID /\ byID[gtsID].IsSchema

\* C17: Cast returns a result only if the schema governing the instance and
\* the target both exist in the registry as schemas; a target that resolves
\* to a registered entity that is not a schema gives an error instead.
C17_CastNeedsBothSchemas ==
    (CastReturned /\ castResult.res # <<>>) =>
        /\ castArgs[1] \in DOMAIN byID
        /\ RegisteredSchema(byID[castArgs[1]].SchemaID)
        /\ RegisteredSchema(castArgs[2])

\* a Cast call has returned a result
CastResulted == CastReturned /\ castResult.res # <<>>

\* the properties the target schema requires and the instance lacks
MissingFromInstance ==
    FlatRequired(ContentOf(heap, byID[castArgs[2]]))
        \ DOMAIN ContentOf(heap, byID[castArgs[1]]).v

\* C18: for every property the target schema requires and the instance lacks,
\* the cast returns a result in which exactly one of two things happened: the
\* property was inserted and its path is in the added list, or a "missing
\* required property and no default" diagnostic names its path.
C18_MissingRequiredDefaultOrDiagnostic ==
    CastResulted =>
        LET r == castResult.res[1] IN
        \A p \in MissingFromInstance :
            LET inserted ==
                    /\ p \in Range(r.AddedProperties)
                    /\ r.CastedEntity # Nil
                    /\ Has(Obj(heap, r.CastedEntity), p)
                diagnosed ==
                    MissingRequired(p) \in Range(r.IncompatibilityReasons)
            IN inserted # diagnosed

\* the schema governing the source instance of a Cast, and the target schema
SourceSchema == byID[byID[castArgs[1]].SchemaID].Content
TargetSchema == byID[castArgs[2]].Content

\* the same cast run under the target's own identifier as source identifier,
\* for which the direction is none (or unknown): the outcomes it can have
SameDirectionCasts ==
    castInstance(heap, castArgs[2], castArgs[2], byID[castArgs[1]].Content,
                 SourceSchema, TargetSchema)

\* the content, the lists and the diagnostics of result r are those of run s
SameTransformation(r, s) ==
    /\ s.res # <<>>
    /\ (r.CastedEntity = Nil) = (s.res[1].CastedEntity = Nil)
    /\ r.CastedEntity # Nil =>
          Deref(heap, JMap(r.CastedEntity))
              = Deref(s.h, JMap(s.res[1].CastedEntity))
    /\ r.AddedProperties = s.res[1].AddedProperties
    /\ r.RemovedProperties = s.res[1].RemovedProperties
    /\ r.IncompatibilityReasons = s.res[1].IncompatibilityReasons
    /\ r.IsFullyCompatible = s.res[1].IsFullyCompatible

\* the backward and forward flags and errors of r are those of s
SameFlags(r, s) ==
    /\ s.res # <<>>
    /\ r.IsBackwardCompatible = s.res[1].IsBackwardCompatible
    /\ r.IsForwardCompatible = s.res[1].IsForwardCompatible
    /\ r.BackwardErrors = s.res[1].BackwardErrors
    /\ r.ForwardErrors = s.res[1].ForwardErrors

\* C19: the direction Cast infers only annotates the report: the transformed
\* content, the added and removed lists, the diagnostics and the backward and
\* forward flags are those of the same cast under any other direction.
C19_DirectionOnlyAnnotates ==
    CastResulted =>
        \E s \in SameDirectionCasts :
            /\ SameTransformation(castResult.res[1], s)
            /\ SameFlags(castResult.res[1], s)

\* C19 as amended: the transformed content, the added and removed lists and
\* the diagnostics are those of the same cast under any other direction; the
\* backward and forward flags are those of the checks of the source schema as
\* old against the target schema as new, except that under direction down the
\* target schema is the old one and the source schema the new one.
C19_OnlyFlagsFollowDirection ==
    CastResulted =>
        LET r == castResult.res[1]
            down == r.Direction = "down"
            old == IF down THEN TargetSchema ELSE SourceSchema
            new == IF down THEN SourceSchema ELSE TargetSchema
        IN /\ \E s \in SameDirectionCasts : SameTransformation(r, s)
           /\ \E back \in {checkBackwardCompatibility(heap, old, new)},
                 fwd \in {checkForwardCompatibility(heap, old, new)} :
                 /\ ~back.panic /\ ~fwd.panic
                 /\ r.IsBackwardCompatible = back.ok
                 /\ r.IsForwardCompatible = fwd.ok
                 /\ r.BackwardErrors = back.errors
                 /\ r.ForwardErrors = fwd.errors

\* a cast down to the earlier schema that changed the instance and whose
\* backward and forward flags differ
C19_Witness ==
    /\ CastResulted
    /\ castResult.res[1].Direction = "down"
    /\ castResult.res[1].IsBackwardCompatible # castResult.res[1].IsForwardCompatible
    /\ castResult.res[1].CastedEntity # Nil

-----------------------------------------------------------------------------
(* Compatibility of bounds: schema pairs that differ in one property's bounds *)

BoundKinds == {"number", "integer", "string", "array"}
MinKey(kind) ==
    CASE kind \in {"number", "integer"} -> "minimum"
      [] kind = "string" -> "minLength"
      [] kind = "array" -> "minItems"
MaxKey(kind) ==
    CASE kind \in {"number", "integer"} -> "maximum"
      [] kind = "string" -> "maxLength"
      [] kind = "array" -> "maxItems"

\* the values of a lower and of an upper bound; 0 stands for no bound
BoundMins == {0, 1, 2}
BoundMaxs == {0, 3, 4}

\* a property schema with the bound pair of kind, that does not declare the
\* type, declares it by name or declares it by a list of one name
TypeForms == {"none", "name", "list"}
BoundProp(kind, declared, min, max) ==
    Doc((CASE declared = "name" -> <<KV("type", JStr(Chars(kind)))>>
           [] declared = "list" -> <<KV("type", JArr(<<JStr(Chars(kind))>>))>>
           [] OTHER -> <<>>)
        \o (IF min = 0 THEN <<>> ELSE <<KV(MinKey(kind), JNum(min))>>)
        \o (IF max = 0 THEN <<>> ELSE <<KV(MaxKey(kind), JNum(max))>>))
BoundProps ==
    {BoundProp(kind, declared, min, max) :
        kind \in BoundKinds, declared \in TypeForms,
        min \in BoundMins, max \in BoundMaxs}
BoundSchema(id, prop) == SchemaDoc(id, <<Props(<<KV("level", prop)>>)>>)

InitBounds ==
    /\ mode = "cast" /\ pc = "ready"
    /\ \E oldProp \in BoundProps, newProp \in BoundProps :
          \E reg \in {RegisterAll([heap |-> <<>>, byID |-> <<>>],
                         <<BoundSchema(T10, oldProp), BoundSchema(T11, newProp)>>)} :
              heap = reg.heap /\ byID = reg.byID
    /\ castArgs = <<>> /\ castResult = <<>>
    /\ IdIdle /\ ResolverIdle /\ QueryIdle /\ ReaderIdle /\ StoreIdle /\ XrefIdle

NextBounds == CheckCompatibility
SpecBounds == InitBounds /\ [][NextBounds]_vars

\* the primitive types with a bound pair that either schema declares for a
\* property
DeclaredKinds(oldProp, newProp) ==
    {kind \in BoundKinds :
        \E s \in {oldProp, newProp} :
            s.t = "obj" /\ Has(s.v, K_type) /\ s.v[K_type] = JStr(Chars(kind))}

\* the bound under key, as a sequence of none or one number
BoundOf(prop, key) ==
    IF prop.t = "obj" THEN getNumber(prop.v, Chars(key)) ELSE <<>>

\* new raises the minimum, lowers the maximum or introduces a bound
Tightens(oldProp, newProp, kind) ==
    LET oldMin == BoundOf(oldProp, MinKey(kind))
        newMin == BoundOf(newProp, MinKey(kind))
        oldMax == BoundOf(oldProp, MaxKey(kind))
        newMax == BoundOf(newProp, MaxKey(kind))
    IN \/ oldMin # <<>> /\ newMin # <<>> /\ newMin[1] > oldMin[1]
       \/ oldMax # <<>> /\ newMax # <<>> /\ newMax[1] < oldMax[1]
       \/ oldMin = <<>> /\ newMin # <<>>
       \/ oldMax = <<>> /\ newMax # <<>>

\* new lowers the minimum, raises the maximum or removes a bound
Relaxes(oldProp, newProp, kind) ==
    LET oldMin == BoundOf(oldProp, MinKey(kind))
        newMin == BoundOf(newProp, MinKey(kind))
        oldMax == BoundOf(oldProp, MaxKey(kind))
        newMax == BoundOf(newProp, MaxKey(kind))
    IN \/ oldMin # <<>> /\ newMin # <<>> /\ newMin[1] < oldMin[1]
       \/ oldMax # <<>> /\ newMax # <<>> /\ newMax[1] > oldMax[1]
       \/ oldMin # <<>> /\ newMin = <<>>
       \/ oldMax # <<>> /\ newMax = <<>>

\* C20: for every property both schemas declare and the bound pair of its
\* declared primitive type, the backward check reports a violation whenever
\* the new schema raises a minimum, lowers a maximum or introduces a bound,
\* and the forward check reports a violation whenever the new schema lowers a
\* minimum, raises a maximum or removes a bound.
C20_BoundChangesReported ==
    CompatChecked =>
        LET r == castResult.res[1]
            oldProps == PropsOf(ContentOf(heap, byID[castArgs[1]]))
            newProps == PropsOf(ContentOf(heap, byID[castArgs[2]]))
        IN \A p \in DOMAIN oldProps \cap DOMAIN newProps :
             \A kind \in DeclaredKinds(oldProps[p], newProps[p]) :
                /\ Tightens(oldProps[p], newProps[p], kind) =>
                      ~r.IsBackwardCompatible /\ r.BackwardErrors # <<>>
                /\ Relaxes(oldProps[p], newProps[p], kind) =>
                      ~r.IsForwardCompatible /\ r.ForwardErrors # <<>>

\* the types a property schema declares: the name its type keyword gives, or
\* the names of the list it gives; none when it has no type keyword
DeclaredTypes(prop) ==
    IF prop.t = "obj" /\ Has(prop.v, K_type)
    THEN IF prop.v[K_type].t = "str" THEN {prop.v[K_type].v}
         ELSE IF prop.v[K_type].t = "arr"
         THEN {prop.v[K_type].v[i].v : i \in 1..Len(prop.v[K_type].v)}
         ELSE {}
    ELSE {}

\* the properties both schemas of a compatibility check declare, with
\* different declared types
RetypedProps ==
    LET oldProps == PropsOf(ContentOf(heap, byID[castArgs[1]]))
        newProps == PropsOf(ContentOf(heap, byID[castArgs[2]]))
    IN {p \in DOMAIN oldProps \cap DOMAIN newProps :
          /\ DeclaredTypes(oldProps[p]) # {}
          /\ DeclaredTypes(newProps[p]) # {}
          /\ DeclaredTypes(oldProps[p]) # DeclaredTypes(newProps[p])}

\* C21: when a property of both schemas has a declared type in the old schema
\* that differs from its declared type in the new one, the backward check and
\* the forward check both report a violation and neither direction is
\* compatible.
C21_TypeChangeFailsBothChecks ==
    (CompatChecked /\ RetypedProps # {}) =>
        /\ ~castResult.res[1].IsBackwardCompatible
        /\ ~castResult.res[1].IsForwardCompatible
        /\ ~castResult.res[1].IsFullyCompatible
        /\ castResult.res[1].BackwardErrors # <<>>
        /\ castResult.res[1].ForwardErrors # <<>>

-----------------------------------------------------------------------------
(* Claims about versions in matching                                        *)

\* the candidate's segments with minor version m wherever the pattern has a
\* non-wildcard segment that gives no minor version
VaryMinor(cSegs, pSegs, m) ==
    [i \in 1..Len(cSegs) |->
        IF i <= Len(pSegs) /\ ~pSegs[i].IsWildcard /\ pSegs[i].VerMinor = NoMinor
        THEN [cSegs[i] EXCEPT !.VerMinor = m]
        ELSE cSegs[i]]
MinorValues == {NoMinor} \cup {Itoa(m) : m \in 0..2}

\* the non-wildcard pattern segments that give a minor version
MinorFixed ==
    {i \in 1..Len(PatternID.Segments) :
        /\ ~PatternID.Segments[i].IsWildcard
        /\ PatternID.Segments[i].VerMinor # NoMinor}

\* C22: where a non-wildcard pattern segment gives no minor version, the
\* outcome of the match is the same for every minor version of the candidate's
\* segment, or none; where it gives one, only a candidate segment with that
\* same minor version matches.
C22_MinorComparedOnlyWhenGiven ==
    (MatchRan /\ BothValid) =>
        /\ \A m \in MinorValues :
              wildcardMatch([parsed EXCEPT
                               !.Segments = VaryMinor(parsed.Segments,
                                                      PatternID.Segments, m)],
                            PatternID) = matchResult.Match
        /\ matchResult.Match =>
              \A i \in MinorFixed :
                  parsed.Segments[i].VerMinor = PatternID.Segments[i].VerMinor

\* the pattern gives no minor version in a segment where the candidate has
\* one, and gives one in another segment; the candidate matches
C22_Witness ==
    /\ MatchRan /\ BothValid /\ matchResult.Match
    /\ MinorFixed # {}
    /\ \E i \in 1..Len(PatternID.Segments) :
          /\ ~PatternID.Segments[i].IsWildcard
          /\ PatternID.Segments[i].VerMinor = NoMinor
          /\ parsed.Segments[i].VerMinor # NoMinor

-----------------------------------------------------------------------------
(* Runs with malformed input: MatchIDPattern on well formed and malformed    *)
(* candidates and patterns, and Query on well formed and malformed           *)
(* expressions                                                               *)

ErrorPatterns ==
    { GlobalWildcard,
      Chars("gts.a.b.c.d.v1~"),
      Chars("gts.a.b.c.d.v1~a.b.c.d.*"),
      Chars("gts.a.*.c"),
      Chars("gts.a.b.c.d.v1.*~"),
      Chars("gts.*.*"),
      Chars("a.b.c.d.v1~"),
      Chars("gts.a.b.c.d.v01~"),
      <<>> }

InitMatchErrors ==
    /\ mode = "id" /\ pc = "start"
    /\ \/ candidate \in ParseInputs /\ pattern \in ErrorPatterns
       \/ candidate \in LongInputs /\ pattern \in LongInputs
    /\ parsed = NotParsed /\ matchResult = NotMatched
    /\ GraphIdle /\ CastIdle /\ QueryIdle /\ ReaderIdle /\ StoreIdle /\ XrefIdle

InitErrors == InitMatchErrors \/ InitQuery
NextErrors == NextID \/ NextQuery
SpecErrors == InitErrors /\ [][NextErrors]_vars

\* the candidate of a match as MatchIDPattern reads it
CandidateID ==
    IF ContainsCh(candidate, "*") THEN validateWildcard(candidate)
    ELSE NewGtsID(candidate)

\* a Query call has returned
QueryReturned == mode = "query" /\ pc = "done"

\* the text of the query expression before its first [, trimmed, and whether
\* the expression opens a filter bracket that it does not close
ExprBase == TrimSpace(SplitN2(queryArgs.expr, "[")[1])
BracketOpen ==
    /\ ContainsCh(queryArgs.expr, "[")
    /\ ~HasSuffix(TrimSpace(SplitN2(queryArgs.expr, "[")[2]), <<"]">>)
ExprBaseID ==
    IF ContainsCh(ExprBase, "*") THEN validateWildcard(ExprBase)
    ELSE NewGtsID(ExprBase)

\* C23: MatchIDPattern and Query return a result for every input; when the
\* candidate, the pattern or the base pattern of the query cannot be parsed,
\* or the filter bracket is not closed, the result has a non-empty Error, with
\* Match false for a match and no results for a query.
C23_ErrorsAreReturnedInTheResult ==
    /\ MatchRan =>
          /\ matchResult # NotMatched
          /\ (CandidateID.err # "" \/ PatternID.err # "") =>
                (matchResult.Error # "" /\ matchResult.Match = FALSE)
    /\ (QueryReturned /\ (BracketOpen \/ ExprBaseID.err # "")) =>
          /\ queryResult.Error # <<>>
          /\ queryResult.Results = <<>>
          /\ queryResult.Count = 0

\* a match whose candidate is well formed and whose pattern is not
C23_Witness ==
    /\ MatchRan
    /\ CandidateID.err = "" /\ PatternID.err # ""
    /\ matchResult.Error # ""

\* a query on a registry with a matching entity whose bracket is not closed
C23_WitnessQuery ==
    /\ QueryReturned /\ BracketOpen /\ ExprBaseID.err = ""
    /\ \E id \in DOMAIN byID : MatchIDPattern(byID[id].GtsID, ExprBase).Match
    /\ queryResult.Error # <<>>

-----------------------------------------------------------------------------
(* The file reader.  A path is a record [exists, dir, files]: for a          *)
(* directory files are the files below it in walk order, for a single file   *)
(* the file itself.  A file is a record [real, ext, excluded]: its resolved  *)
(* path, its lower-cased extension and whether the walk of a directory skips *)
(* it because it lies under an excluded directory.                           *)
(* FileContent(real) is what json.Unmarshal returns for the file (Unreadable *)
(* when reading or decoding fails); the files do not change during a run.    *)

Unreadable == [t |-> "bad", v |-> <<>>]
File(real, ext, excluded) == [real |-> real, ext |-> ext, excluded |-> excluded]
FileA == File("a.json", ".json", FALSE)
FileB == File("b.jsonc", ".jsonc", FALSE)
FileC == File("c.json", ".json", FALSE)
FileD == File("d.txt", ".txt", FALSE)
FileE == File("build/e.gts", ".gts", TRUE)
FileF == File("f.gts", ".gts", FALSE)

FileContent(real) ==
    CASE real = "a.json" -> JObj(InstanceDoc(I10, T10, <<NameN>>))
      [] real = "b.jsonc" ->
            JArr(<<JObj(SchemaDoc(T10, <<Props(NameOnly)>>)),
                   JNum(1),
                   Doc(<<NameN>>),
                   JObj(InstanceDoc(I11, T11, <<NameN>>))>>)
      [] real = "c.json" -> Unreadable
      [] real = "f.gts" -> JObj(InstanceDoc(I10, T10, <<NameN>>))
      [] OTHER -> JObj(InstanceDoc(I0, T10, <<NameN>>))

validExtensions == {".json", ".jsonc", ".gts"}

\* NewGtsFileReader
NewGtsFileReader(paths) ==
    [paths |-> paths, files |-> <<>>, currentIndex |-> 0,
     currentFileEntities |-> <<>>, currentEntityIndex |-> 0,
     initialized |-> FALSE]

\* collectFiles: the files of the paths that exist, in order, each resolved
\* path once.  The walk of a directory skips the excluded directories; a path
\* that names a file is taken whatever directory it lies in.
RECURSIVE collectFrom(_, _, _)
collectFrom(files, walk, collected) ==
    IF files = <<>> THEN collected
    ELSE collectFrom(Tail(files), walk,
            IF Head(files).ext \in validExtensions
               /\ (walk => ~Head(files).excluded)
               /\ \A c \in Range(collected) : c.real # Head(files).real
            THEN Append(collected, Head(files))
            ELSE collected)
RECURSIVE collectFiles(_, _)
collectFiles(paths, collected) ==
    IF paths = <<>> THEN collected
    ELSE collectFiles(Tail(paths),
            IF ~Head(paths).exists THEN collected
            ELSE collectFrom(Head(paths).files, Head(paths).dir, collected))

\* NewJsonEntityWithFile
NewJsonEntityWithFile(content, file, listSequence) ==
    [File |-> file, ListSequence |-> listSequence] @@ NewJsonEntity(content)

\* processFile: the entities with an identifier that the file holds
processFile(file) ==
    Only({
      SelectSeq(
        Cat(IF content.t = "arr"
            THEN [i \in 1..Len(content.v) |->
                    IF content.v[i].t = "obj"
                    THEN <<NewJsonEntityWithFile(content.v[i].v, file.real,
                                                 <<i - 1>>)>>
                    ELSE <<>>]
            ELSE IF content.t = "obj"
            THEN <<<<NewJsonEntityWithFile(content.v, file.real, <<>>)>>>>
            ELSE <<>>),
        LAMBDA e : e.GtsID # <<>>)
      : content \in {FileContent(file.real)} })

\* the loop of Next over the files not processed yet
RECURSIVE nextFile(_)
nextFile(r) ==
    IF r.currentIndex < Len(r.files)
    THEN Only({
           IF Len(moved.currentFileEntities) > 0
           THEN [r |-> [moved EXCEPT !.currentEntityIndex = 1],
                 entity |-> <<moved.currentFileEntities[1]>>]
           ELSE nextFile(moved)
           : moved \in {[r EXCEPT !.currentFileEntities = entities,
                                  !.currentIndex = @ + 1,
                                  !.currentEntityIndex = 0]
                        : entities \in {processFile(r.files[r.currentIndex + 1])}} })
    ELSE [r |-> r, entity |-> <<>>]

\* Next: the reader after the call and the entity returned, <<>> for nil
ReaderNext(r0) ==
    Only({
      IF r.currentEntityIndex < Len(r.currentFileEntities)
      THEN [r |-> [r EXCEPT !.currentEntityIndex = @ + 1],
            entity |-> <<r.currentFileEntities[r.currentEntityIndex + 1]>>]
      ELSE nextFile(r)
      : r \in {IF r0.initialized THEN r0
               ELSE [r0 EXCEPT !.files = collectFiles(r0.paths, <<>>),
                               !.initialized = TRUE]} })

\* Reset that leaves the file cursor where it is
ReaderResetKeepsFile(r) ==
    [r EXCEPT !.currentFileEntities = <<>>,
              !.currentEntityIndex = 0,
              !.initialized = FALSE]

\* Reset
ReaderReset(r) ==
    [r EXCEPT !.currentIndex = 0,
              !.currentFileEntities = <<>>,
              !.currentEntityIndex = 0,
              !.initialized = FALSE]

\* ReadByID of the file reader: always nil
ReadByID(r, entityID) == <<>>

-----------------------------------------------------------------------------
(* Reader runs: a reader over a small file tree, then Next and Reset calls   *)

DirPath(files) == [exists |-> TRUE, dir |-> TRUE, files |-> files]
FilePath(file) == [exists |-> TRUE, dir |-> FALSE, files |-> <<file>>]
MissingPath == [exists |-> FALSE, dir |-> FALSE, files |-> <<>>]

ReaderPathLists ==
    { <<>>,
      <<DirPath(<<FileA, FileC, FileB, FileE>>)>>,
      <<DirPath(<<FileA, FileB>>), FilePath(FileA)>>,
      <<MissingPath, FilePath(FileB), DirPath(<<FileC>>)>>,
      <<DirPath(<<FileC>>), FilePath(FileA), FilePath(FileD), FilePath(FileF)>>,
      <<FilePath(FileD), DirPath(<<FileE>>), FilePath(FileE)>>,
      <<FilePath(FileF), FilePath(FileA), FilePath(FileB)>>,
      <<DirPath(<<FileC, FileB, FileC, FileA>>)>> }

\* Next calls after the last Reset, and Reset calls, of one run
MaxReads == 5
MaxResets == 2

InitReader ==
    /\ mode = "reader" /\ pc = "ready"
    /\ \E paths \in ReaderPathLists : reader = NewGtsFileReader(paths)
    /\ readLog = [returned |-> <<>>, nils |-> 0, resets |-> 0]
    /\ heap = <<>> /\ castArgs = <<>> /\ castResult = <<>>
    /\ IdIdle /\ GraphIdle /\ QueryIdle /\ StoreIdle /\ XrefIdle

ReadNext ==
    /\ mode = "reader"
    /\ Len(readLog.returned) + readLog.nils < MaxReads
    /\ \E n \in {ReaderNext(reader)} :
          /\ reader' = n.r
          /\ readLog' = IF n.entity = <<>>
                        THEN [readLog EXCEPT !.nils = @ + 1]
                        ELSE [readLog EXCEPT !.returned = @ \o n.entity]
    /\ UNCHANGED <<mode, pc, candidate, pattern, parsed, matchResult, byID,
                   rootID, seen, stack, graph, steps, heap, castArgs,
                   castResult, queryArgs, queryResult, config,
                   storeResult, xref>>

ReadReset ==
    /\ mode = "reader"
    /\ readLog.resets < MaxResets
    /\ reader' = ReaderReset(reader)
    /\ readLog' = [returned |-> <<>>, nils |-> 0, resets |-> readLog.resets + 1]
    /\ UNCHANGED <<mode, pc, candidate, pattern, parsed, matchResult, byID,
                   rootID, seen, stack, graph, steps, heap, castArgs,
                   castResult, queryArgs, queryResult, config,
                   storeResult, xref>>

NextReader == ReadNext \/ ReadReset
SpecReader == InitReader /\ [][NextReader]_vars

\* What a pass over each path list has to return, written out by hand from
\* the files: the file and the identifier of every document that has one.
\*   a.json      an instance of the type v1.0
\*   b.jsonc     a list: the schema of the type v1.0, the number 1, a document
\*               without an identifier, an instance of the type v1.1
\*   c.json      not readable
\*   d.txt       not an extension the reader takes
\*   build/e.gts an instance without a type, under an excluded directory
\*   f.gts       the instance of a.json again
Returned(file, id) == [File |-> file, ID |-> Chars(id)]
FromA == Returned("a.json", "gts.x.c.e.t.v1.0~x.c.e.i.v1.0")
FromB0 == Returned("b.jsonc", "gts.x.c.e.t.v1.0~")
FromB3 == Returned("b.jsonc", "gts.x.c.e.t.v1.1~x.c.e.i.v1.0")
FromE == Returned("build/e.gts", "gts.x.c.e.i.v1.0")
FromF == Returned("f.gts", "gts.x.c.e.t.v1.0~x.c.e.i.v1.0")
ExpectedReturns(paths) ==
    CASE paths = <<>> -> <<>>
      [] paths = <<DirPath(<<FileA, FileC, FileB, FileE>>)>> ->
            <<FromA, FromB0, FromB3>>
      [] paths = <<DirPath(<<FileA, FileB>>), FilePath(FileA)>> ->
            <<FromA, FromB0, FromB3>>
      [] paths = <<MissingPath, FilePath(FileB), DirPath(<<FileC>>)>> ->
            <<FromB0, FromB3>>
      [] paths = <<DirPath(<<FileC>>), FilePath(FileA), FilePath(FileD),
                   FilePath(FileF)>> ->
            <<FromA, FromF>>
      [] paths = <<FilePath(FileD), DirPath(<<FileE>>), FilePath(FileE)>> ->
            <<FromE>>
      [] paths = <<FilePath(FileF), FilePath(FileA), FilePath(FileB)>> ->
            <<FromF, FromA, FromB0, FromB3>>
      [] paths = <<DirPath(<<FileC, FileB, FileC, FileA>>)>> ->
            <<FromB0, FromB3, FromA>>

\* the file and the identifier of the entities that the Next calls have
\* returned since the last Reset
ReturnedSoFar ==
    [i \in 1..Len(readLog.returned) |->
        [File |-> readLog.returned[i].File,
         ID |-> IF readLog.returned[i].GtsID = <<>> THEN <<>>
                ELSE readLog.returned[i].GtsID[1]]]

\* C25: since the last Reset (or the start), the Next calls have returned the
\* entities that have an identifier in their fixed order, each once, and nil
\* only after the last of them; after a Reset the sequence starts again from
\* its first element.
C25_NextIsAResettablePass ==
    mode = "reader" =>
        \E expected \in {ExpectedReturns(reader.paths)} :
            /\ Len(ReturnedSoFar) <= Len(expected)
            /\ ReturnedSoFar = SubSeq(expected, 1, Len(ReturnedSoFar))
            /\ readLog.nils > 0 => ReturnedSoFar = expected

\* after a Reset, a second pass over the two files that hold three entities,
\* two of them in a list, has ended and a further Next call returned nil again
C25_Witness ==
    /\ mode = "reader"
    /\ readLog.resets > 0 /\ readLog.nils > 1
    /\ ReturnedSoFar = <<FromA, FromB0, FromB3>>

-----------------------------------------------------------------------------
(* The registry: GtsStore with its RegistryConfig, built from a reader and  *)
(* changed by Register, RegisterSchema and Get.                             *)

RegistryConfig(validate) == [ValidateGtsReferences |-> validate]
DefaultRegistryConfig == RegistryConfig(FALSE)

\* walkAndCollectRefs: the valid identifiers among the string values of a
\* document, each with the path of keys and indexes that leads to it. st holds
\* the list refs and the set seen of the keys (identifier, "|", path) already
\* listed; the result is the set of the states the walk can end in, one for
\* every order in which the range over each map can visit its keys
RECURSIVE walkAndCollectRefs(_, _, _)
RECURSIVE walkFields(_, _, _, _)
RECURSIVE walkItems(_, _, _, _)
walkFields(fields, keys, path, sts) ==
    IF keys = <<>> THEN sts
    ELSE walkFields(fields, Tail(keys), path,
            UNION {walkAndCollectRefs(fields[Head(keys)],
                                      IF path = <<>> THEN Head(keys)
                                      ELSE path \o <<".">> \o Head(keys),
                                      st)
                   : st \in sts})
walkItems(items, i, path, sts) ==
    IF i > Len(items) THEN sts
    ELSE walkItems(items, i + 1, path,
            UNION {walkAndCollectRefs(items[i],
                                      path \o <<"[">> \o Itoa(i - 1) \o <<"]">>,
                                      st)
                   : st \in sts})
walkAndCollectRefs(node, path, st) ==
    IF node.t = "str"
    THEN IF IsValidGtsID(node.v)
         THEN UNION {
                IF (node.v \o <<"|">> \o sourcePath) \in st.seen THEN {st}
                ELSE {[refs |-> Append(st.refs, [ID |-> node.v,
                                                 SourcePath |-> sourcePath]),
                       seen |-> st.seen
                                  \cup {node.v \o <<"|">> \o sourcePath}]}
                : sourcePath \in {IF path = <<>> THEN Chars("root") ELSE path} }
         ELSE {st}
    ELSE IF node.t = "obj"
    THEN UNION {walkFields(node.v, keys, path, {st})
                : keys \in Orders(DOMAIN node.v)}
    ELSE IF node.t = "arr"
    THEN walkItems(node.v, 1, path, {st})
    ELSE {st}

\* extractGtsReferences: the lists of references the call can return
extractGtsReferences(content) ==
    {st.refs : st \in walkAndCollectRefs(content, <<>>,
                                         [refs |-> <<>>, seen |-> {}])}

\* NewJsonEntity together with the references it extracts from the content:
\* the entities the call can return
NewJsonEntityWithRefs(content) ==
    {[GtsRefs |-> refs] @@ entity
     : refs \in extractGtsReferences(JObj(content)),
       entity \in {NewJsonEntity(content)}}

\* GtsStore.Get on a registry value; the file reader's ReadByID finds nothing,
\* so a miss leaves the registry as it is
StoreGet(reg, entityID) ==
    IF entityID \in DOMAIN reg.byID THEN <<reg.byID[entityID]>>
    ELSE ReadByID(reader, entityID)

\* validateEntityGtsReferences: the errors it collects, none when it returns nil
validateEntityGtsReferences(reg, entity) ==
    Cat([i \in 1..Len(entity.GtsRefs) |->
          Only({
            IF ref.ID = entity.GtsID[1] THEN <<>>
            ELSE IF HasPrefix(ref.ID, Chars("http://json-schema.org"))
                    \/ HasPrefix(ref.ID, Chars("https://json-schema.org"))
            THEN <<>>
            ELSE Only({
                   IF referencedEntity = <<>>
                   THEN <<[error |-> "referenced entity not found",
                           ID |-> ref.ID, SourcePath |-> ref.SourcePath]>>
                   ELSE IF entity.IsSchema
                           /\ Contains(ref.SourcePath, Chars("$ref"))
                           /\ ~referencedEntity[1].IsSchema
                   THEN <<[error |-> "schema reference points to non-schema entity",
                           ID |-> ref.ID, SourcePath |-> ref.SourcePath]>>
                   ELSE <<>>
                   : referencedEntity \in {StoreGet(reg, ref.ID)} })
            : ref \in {entity.GtsRefs[i]} })])

\* GtsStore.Register under a configuration: the registry after the call and
\* the error returned (none as the empty sequence)
RegisterValidated(reg, cfg, entity) ==
    IF entity.GtsID = <<>> \/ entity.GtsID[1] = <<>>
    THEN [reg |-> reg, err |-> <<"entity must have a valid gts_id">>]
    ELSE Only({
           IF errors # <<>>
           THEN [reg |-> reg,
                 err |-> <<"GTS reference validation failed">> \o errors]
           ELSE [reg |-> Register(reg, entity), err |-> <<>>]
           : errors \in {IF cfg.ValidateGtsReferences
                         THEN validateEntityGtsReferences(reg, entity)
                         ELSE <<>>} })

\* populateFromReader: Next until it returns nil, each entity stored under its
\* identifier without validation
RECURSIVE populateFromReader(_, _)
populateFromReader(r, reg) ==
    Only({
      IF n.entity = <<>> THEN [reader |-> n.r, reg |-> reg]
      ELSE populateFromReader(n.r, Register(reg, n.entity[1]))
      : n \in {ReaderNext(r)} })

\* NewGtsStoreWithConfig
NewGtsStoreWithConfig(r, cfg) ==
    [config |-> cfg] @@ populateFromReader(r, [heap |-> <<>>, byID |-> <<>>])

\* the documents handed to Register and RegisterSchema, and the identifiers
\* handed to RegisterSchema and Get
RefToInstance == KV("$ref", JStr(I10))
RefToSchema == KV("$ref", JStr(T10))
StoreDocs ==
    { InstanceDoc(I10, T10, <<NameN>>),
      InstanceDoc(I11, T11, <<NameN>>),
      SchemaDoc(T10, <<Props(NameOnly)>>),
      SchemaDoc(T11, <<Props(NameOnly), RefToInstance>>),
      SchemaDoc(T11, <<Props(NameOnly), RefToSchema>>),
      Doc(<<NameN>>).v }
StoreSchemas ==
    { SchemaDoc(T10, <<Props(NameOnly)>>),
      SchemaDoc(T11, <<Props(NameOnly), RefToSchema>>) }
PaddedT10 == <<" ">> \o T10
StoreTypeIDs == {T10, T11, PaddedT10, I10, Chars("gts.x.c~")}
StoreGetIDs == {T10, T11, PaddedT10, I10}
StorePathLists ==
    { <<>>,
      <<FilePath(FileA)>>,
      <<FilePath(FileB)>>,
      <<DirPath(<<FileA, FileC, FileB, FileE>>)>> }

\* calls on one store after its construction
MaxStoreOps == 2

InitStore ==
    /\ mode = "store" /\ pc = "ready"
    /\ \E validate \in BOOLEAN, paths \in StorePathLists :
          \E s \in {NewGtsStoreWithConfig(NewGtsFileReader(paths),
                                          RegistryConfig(validate))} :
             /\ config = s.config
             /\ reader = s.reader
             /\ heap = s.reg.heap
             /\ byID = s.reg.byID
    /\ storeResult = [op |-> "NewGtsStoreWithConfig", arg |-> <<>>,
                      err |-> <<>>]
    /\ steps = 0 /\ readLog = <<>>
    /\ rootID = <<>> /\ seen = {} /\ stack = <<>> /\ graph = <<>>
    /\ castArgs = <<>> /\ castResult = <<>>
    /\ IdIdle /\ QueryIdle /\ XrefIdle

StoreRegister ==
    /\ mode = "store" /\ steps < MaxStoreOps
    /\ \E content \in StoreDocs :
          \E r \in {RegisterValidated([heap |-> heap, byID |-> byID], config,
                                      entity)
                    : entity \in NewJsonEntityWithRefs(content)} :
             /\ heap' = r.reg.heap
             /\ byID' = r.reg.byID
             /\ storeResult' = [op |-> "Register",
                                arg |-> calcJSONEntityID(content),
                                err |-> r.err]
    /\ steps' = steps + 1
    /\ UNCHANGED <<mode, pc, candidate, pattern, parsed, matchResult, rootID,
                   seen, stack, graph, castArgs, castResult, queryArgs,
                   queryResult, reader, readLog, config,
                   xref>>

StoreRegisterSchema ==
    /\ mode = "store" /\ steps < MaxStoreOps
    /\ \E typeID \in StoreTypeIDs, schema \in StoreSchemas :
          \E reg \in {RegisterSchema([heap |-> heap, byID |-> byID], typeID,
                                     JObj(schema))} :
             /\ heap' = reg.heap
             /\ byID' = reg.byID
             /\ storeResult' = [op |-> "RegisterSchema", arg |-> typeID,
                                err |-> RegisterSchemaErr(typeID)]
    /\ steps' = steps + 1
    /\ UNCHANGED <<mode, pc, candidate, pattern, parsed, matchResult, rootID,
                   seen, stack, graph, castArgs, castResult, queryArgs,
                   queryResult, reader, readLog, config,
                   xref>>

StoreGetEntity ==
    /\ mode = "store" /\ steps < MaxStoreOps
    /\ \E entityID \in StoreGetIDs :
          storeResult' = [op |-> "Get", arg |-> entityID,
                          err |-> IF StoreGet([heap |-> heap, byID |-> byID],
                                              entityID) = <<>>
                                  THEN <<"nil">> ELSE <<>>]
    /\ steps' = steps + 1
    /\ UNCHANGED <<mode, pc, candidate, pattern, parsed, matchResult, byID,
                   rootID, seen, stack, graph, heap, castArgs, castResult,
                   queryArgs, queryResult, reader, readLog, config,
                   xref>>

NextStore == StoreRegister \/ StoreRegisterSchema \/ StoreGetEntity
SpecStore == InitStore /\ [][NextStore]_vars

\* C24: every entity of the registry is stored under a key equal to the
\* entity's own identifier text.
C24_KeyedByOwnIdentifier ==
    mode = "store" => \A k \in DOMAIN byID : byID[k].GtsID = k

\* the references the content of a stored entity holds, other than those to
\* itself and the meta-schema URLs
ForeignRefs(e) ==
    { r.ID : r \in { x \in UNION {Range(refs)
                                  : refs \in extractGtsReferences(
                                               Deref(heap, JMap(e.Content)))} :
                        /\ x.ID # e.GtsID
                        /\ ~HasPrefix(x.ID, Chars("http://json-schema.org"))
                        /\ ~HasPrefix(x.ID, Chars("https://json-schema.org")) } }

\* C27: when the configuration enables reference validation, every reference
\* of every registered entity, other than to itself and to meta-schema URLs,
\* is the key of an entity of the registry.
C27_ReferencesResolveWhenValidated ==
    (mode = "store" /\ config.ValidateGtsReferences) =>
        \A k \in DOMAIN byID : ForeignRefs(byID[k]) \subseteq DOMAIN byID

-----------------------------------------------------------------------------
(* x-gts-ref patterns of a schema: validateRefPattern and the resolvePointer *)
(* calls it makes, one call of resolvePointer per step                      *)

XGtsRef == Chars("x-gts-ref")

\* validateGtsIDOrPattern: the reason of the error, "" for nil
validateGtsIDOrPattern(pat) ==
    IF pat = Chars("gts.*") THEN ""
    ELSE IF ContainsCh(pat, "*")
    THEN IF ~HasPrefix(TrimSuffix(pat, <<"*">>), GtsPrefix)
         THEN "Invalid GTS wildcard pattern"
         ELSE ""
    ELSE IF ~IsValidGtsID(pat) THEN "Invalid GTS identifier"
    ELSE ""

\* the loop of resolvePointer: the value the parts lead to from current, as a
\* sequence of 0 or 1 values (none where the code returns "")
RECURSIVE followParts(_, _)
followParts(current, parts) ==
    IF parts = <<>> THEN <<current>>
    ELSE IF current.t # "obj" THEN <<>>
    ELSE IF Head(parts) \notin DOMAIN current.v
            \/ current.v[Head(parts)].t = "null"
    THEN <<>>
    ELSE followParts(current.v[Head(parts)], Tail(parts))

\* one call of resolvePointer up to its return or its recursive call: either
\* the text it returns, or the pointer it calls itself with
resolvePointerCall(schema, pointer) ==
    LET path == TrimPrefix(pointer, <<"/">>) IN
    IF path = <<>> THEN [return |-> TRUE, value |-> <<>>]
    ELSE Only({
           IF found = <<>> THEN [return |-> TRUE, value |-> <<>>]
           ELSE IF found[1].t = "str" THEN [return |-> TRUE, value |-> found[1].v]
           ELSE IF found[1].t = "obj" /\ XGtsRef \in DOMAIN found[1].v
                   /\ found[1].v[XGtsRef].t = "str"
           THEN IF HasPrefix(found[1].v[XGtsRef].v, <<"/">>)
                THEN [return |-> FALSE, value |-> found[1].v[XGtsRef].v]
                ELSE [return |-> TRUE, value |-> found[1].v[XGtsRef].v]
           ELSE [return |-> TRUE, value |-> <<>>]
           : found \in {followParts(JObj(schema), Split(path, "/"))} })

\* what validateRefPattern makes of the text resolvePointer returned
resolvedReason(resolved) ==
    IF resolved = <<>> THEN "Cannot resolve reference path"
    ELSE IF ~IsValidGtsID(resolved)
    THEN "Resolved reference is not a valid GTS identifier"
    ELSE ""

\* the schemas and the x-gts-ref values of the runs
RefTo(pointer) == Doc(<<KV("x-gts-ref", JStr(Chars(pointer)))>>)
RefSchemas ==
    { SchemaDoc(T10, <<KV("properties",
          Doc(<<KV("a", RefTo("/$id")),
                KV("b", RefTo("/properties/a")),
                KV("c", RefTo("/properties/b"))>>))>>),
      SchemaDoc(T10, <<KV("properties",
          Doc(<<KV("a", RefTo("/properties/a")),
                KV("b", RefTo("/type")),
                KV("c", RefTo("gts.x.c.e.t.v1.0~"))>>))>>),
      SchemaDoc(T10, <<KV("properties",
          Doc(<<KV("a", RefTo("/properties/b")),
                KV("b", RefTo("/properties/c")),
                KV("c", RefTo("/properties/a"))>>))>>),
      SchemaDoc(T10, <<KV("properties",
          Doc(<<KV("a", Doc(<<KV("x-gts-ref", JNum(1))>>)),
                KV("b", JNull),
                KV("c", RefTo("/properties/a"))>>))>>) }
RefPatterns ==
    { JStr(Chars("/properties/a")), JStr(Chars("/properties/b")),
      JStr(Chars("/properties/c")), JStr(Chars("/$id")),
      JStr(Chars("/properties/a/x-gts-ref")), JStr(Chars("/")),
      JStr(Chars("/properties/d")), JStr(Chars("gts.*")),
      JStr(Chars("gts.x.*")), JStr(T10), JStr(Chars("gts.x")),
      JStr(Chars("x.c.e.t.v1~")), JNum(1) }

\* the resolvePointer calls the stack has room for: beyond it the run ends
\* with the runtime's fatal stack overflow
MaxStack == 6

InitXref ==
    /\ mode = "xref" /\ pc = "ready"
    /\ \E schema \in RefSchemas, refPattern \in RefPatterns :
          xref = [schema |-> schema, refPattern |-> refPattern,
                  stack |-> <<>>, reason |-> ""]
    /\ heap = <<>> /\ castArgs = <<>> /\ castResult = <<>>
    /\ IdIdle /\ GraphIdle /\ QueryIdle /\ ReaderIdle /\ StoreIdle

\* validateRefPattern up to its return or its call of resolvePointer
ValidateRefPattern ==
    /\ mode = "xref" /\ pc = "ready"
    /\ IF xref.refPattern.t # "str"
       THEN /\ xref' = [xref EXCEPT !.reason = "x-gts-ref value must be a string"]
            /\ pc' = "done"
       ELSE IF HasPrefix(xref.refPattern.v, GtsPrefix)
       THEN /\ xref' = [xref EXCEPT
                           !.reason = validateGtsIDOrPattern(xref.refPattern.v)]
            /\ pc' = "done"
       ELSE IF HasPrefix(xref.refPattern.v, <<"/">>)
       THEN /\ xref' = [xref EXCEPT !.stack = <<xref.refPattern.v>>]
            /\ pc' = "resolving"
       ELSE /\ xref' = [xref EXCEPT !.reason = "Invalid x-gts-ref value"]
            /\ pc' = "done"
    /\ UNCHANGED <<mode, candidate, pattern, parsed, matchResult, byID,
                   rootID, seen, stack, graph, steps, heap, castArgs,
                   castResult, queryArgs, queryResult, reader, readLog,
                   config, storeResult>>

\* the resolvePointer call on top of the stack runs: it returns, and with it
\* every call below it and validateRefPattern, or it calls resolvePointer
ResolvePointer ==
    /\ mode = "xref" /\ pc = "resolving"
    /\ \E r \in {resolvePointerCall(xref.schema, xref.stack[Len(xref.stack)])} :
          IF r.return
          THEN /\ xref' = [xref EXCEPT !.stack = <<>>,
                                       !.reason = resolvedReason(r.value)]
               /\ pc' = "done"
          ELSE IF Len(xref.stack) < MaxStack
          THEN /\ xref' = [xref EXCEPT !.stack = Append(@, r.value)]
               /\ pc' = "resolving"
          ELSE /\ xref' = xref
               /\ pc' = "stack overflow"
    /\ UNCHANGED <<mode, candidate, pattern, parsed, matchResult, byID,
                   rootID, seen, stack, graph, steps, heap, castArgs,
                   castResult, queryArgs, queryResult, reader, readLog,
                   config, storeResult>>

NextXref == ValidateRefPattern \/ ResolvePointer
SpecXref == InitXref /\ [][NextXref]_vars

\* C28: the resolution of a relative x-gts-ref pointer ends with a return of
\* validateRefPattern, for every schema, also one whose relative x-gts-ref
\* values point at themselves or at each other in a cycle: no run ends in the
\* overflow of the stack by resolvePointer calls.
C28_PointerResolutionTerminates ==
    mode = "xref" => pc # "stack overflow"

-----------------------------------------------------------------------------
(* Claims about the two directions of the compatibility check               *)

\* the forward check with the schemas of the last CheckCompatibility call
\* exchanged: old is the call's new schema, new is the call's old schema
ForwardOfExchanged ==
    checkForwardCompatibility(heap, byID[castArgs[2]].Content,
                              byID[castArgs[1]].Content)

\* C29: the backward check with old=A and new=B is compatible if and only if
\* the forward check with old=B and new=A is compatible.
C29_DirectionsAreDual ==
    CompatChecked =>
        \E fwd \in {ForwardOfExchanged} :
            ~fwd.panic /\ (castResult.res[1].IsBackwardCompatible <=> fwd.ok)

-----------------------------------------------------------------------------
(* Claims about wildcard patterns that fix the major version                *)

\* the segment texts of the pattern and the tokens of its last segment
PatternPieces == Split(TrimPrefix(pattern, GtsPrefix), "~")
LastTokens == Split(PatternPieces[Len(PatternPieces)], ".")

\* the pattern's last segment reads vendor.package.namespace.type.vN.*
FixesMajor ==
    /\ Len(LastTokens) = 6
    /\ LastTokens[6] = <<"*">>
    /\ Len(LastTokens[5]) > 1 /\ LastTokens[5][1] = "v"
    /\ \A i \in 2..Len(LastTokens[5]) : LastTokens[5][i] \in Digit
\* the N of that segment
FixedMajor == Atoi(Tail(LastTokens[5])).val

\* C30: a wildcard pattern whose final segment fixes the major version N,
\* also N = 0, matches a candidate only if the candidate's segment at that
\* position has major version N.
C30_FixedMajorIsCompared ==
    (MatchRan /\ BothValid /\ FixesMajor /\ matchResult.Match) =>
        parsed.Segments[Len(PatternPieces)].VerMajor = FixedMajor

====
